---------------------------- MODULE Spec2Model ----------------------------
(***************************************************************************)
(* A model of fancheng: civil-law entities, intent declarations and the    *)
(* guardianship relation between natural persons.                          *)
(*                                                                         *)
(* Strings are sequences of tokens.  SHA-256 is modelled as collision free *)
(* (a digest is its tagged preimage), every other conversion is computed   *)
(* token by token as the code formats it.                                  *)
(***************************************************************************)
EXTENDS Integers, Sequences, FiniteSets, TLC

\* Instants of the abstract clock behind Utc::now() run over 0..MaxTime.
MaxTime == 1

\* Option<T>: None is the empty sequence, Some(x) the sequence of x alone.
None == <<>>
Some(x) == <<x>>
Unwrap(o) == o[1]

VARIABLES
    now,          \* the instant Utc::now() returns
    decls,        \* the caller's IntentDeclaration values, NoDecl before `new` succeeded
    ret,          \* the last call on the declaration API and what it returned
    callerCopy,   \* the IntentContent a caller obtained from content() and then edited
    addr,         \* Arc::as_ptr of each Arc<Mutex<SyncNaturalPerson>> handle
    mutex,        \* the owner of each handle's Mutex
    rw,           \* the holders of each person's field RwLocks
    person,       \* the fields of each SyncNaturalPerson
    thr,          \* each thread's place in SyncNaturalPerson::set_guardian and its locals
    obs,          \* what a reader holding clones of two persons has read so far
    calendarYear, \* the calendar year of Utc::now()
    plain,        \* the caller's NaturalPerson values, NoPerson before `new`
    org,          \* the caller's LegalPerson and UnincorporatedOrg values
    contract,     \* the caller's BaseContract, NoContract before `new`
    upd           \* a further thread's place in one &self method of a shared entity

declVars == <<now, decls, ret, callerCopy>>
guardVars == <<addr, mutex, rw, person, thr>>

\* What the declaration API leaves alone, and what set_guardian leaves alone.
entVars == <<calendarYear, plain, org, contract>>
outsideDecl == <<guardVars, obs, entVars, upd>>
outsideGuard == <<declVars, obs, entVars, upd>>

-----------------------------------------------------------------------------
(* Entities (core/entity)                                                  *)

\* NaturalPerson::evaluate_capacity: the year difference is cast to u8.
evaluate_capacity(birthYear, year, mental_status) ==
    LET age == (year - birthYear) % 256
    IN  CASE mental_status = "Normal" /\ age >= 18 -> "Full"
          [] mental_status = "Normal" /\ age >= 8 -> "Limited"
          [] mental_status = "PartiallyImpaired" -> "Limited"
          [] mental_status = "SeverelyImpaired" -> "None"
          [] OTHER -> "None"

\* The calendar year of Utc::now() (the tests assume 2025).
CurrentYear == 2025

\* NaturalPerson::new at a year in which the person has the given age.
NaturalPersonNew(id, age, mental_status) ==
    [id |-> id, entity_type |-> "NaturalPerson",
     capacity_status |-> [variant |-> "NaturalPerson",
                          value |-> evaluate_capacity(CurrentYear - age, CurrentYear, mental_status)]]

\* UnincorporatedOrg::new followed by update_authority_status(status).
UnincorporatedOrgNew(id, status) ==
    [id |-> id, entity_type |-> "UnincorporatedOrg",
     capacity_status |-> [variant |-> "UnincorporatedOrg", value |-> status]]

\* The parties a caller may hand to IntentDeclaration::new (Arc<dyn Entity>).
Entities ==
    [A |-> NaturalPersonNew(2, 20, "Normal"),
     B |-> NaturalPersonNew(1, 30, "Normal"),
     C |-> NaturalPersonNew(3, 10, "Normal"),
     N |-> NaturalPersonNew(4, 30, "SeverelyImpaired"),
     U |-> UnincorporatedOrgNew(5, "Suspended")]

EntityNames == DOMAIN Entities

\* Mutation of has_capacity: a suspended organization has no capacity.
has_capacity_unless_suspended(e) ==
    CASE e.entity_type = "NaturalPerson" ->
            e.capacity_status.variant = "NaturalPerson" /\ e.capacity_status.value = "Full"
      [] e.entity_type = "UnincorporatedOrg" ->
            /\ e.capacity_status.variant = "UnincorporatedOrg"
            /\ e.capacity_status.status # "Suspended"
      [] OTHER -> FALSE

\* Entity::has_capacity as implemented by NaturalPerson, SyncNaturalPerson and
\* UnincorporatedOrg.
has_capacity(e) ==
    CASE e.entity_type = "NaturalPerson" ->
            e.capacity_status.variant = "NaturalPerson" /\ e.capacity_status.value = "Full"
      [] e.entity_type = "UnincorporatedOrg" ->
            e.capacity_status.variant = "UnincorporatedOrg"
      [] OTHER -> FALSE

\* The entity behind an Arc<dyn Entity>: one of the fixed entities, the
\* organization O, or the shared person P or Q, whose base is read at the
\* moment of the call.
PartyEntity(n) ==
    IF n \in EntityNames
    THEN Entities[n]
    ELSE IF n = "O"
    THEN org[n]
    ELSE [id |-> person[n].id,
          entity_type |-> "NaturalPerson",
          capacity_status |-> person[n].capacity_status]

-----------------------------------------------------------------------------
(* Intent content (contract/intent/content.rs)                             *)

RECURSIVE Digits(_)
\* Display of a non-negative integer, one token per decimal digit.
Digits(n) ==
    IF n < 10 THEN <<ToString(n)>> ELSE Digits(n \div 10) \o <<ToString(n % 10)>>

RECURSIVE Pow10(_)
Pow10(k) == IF k = 0 THEN 1 ELSE 10 * Pow10(k - 1)

RECURSIVE FracDigits(_, _)
\* The `scale` digits after the decimal point, leading zeros kept.
FracDigits(frac, scale) ==
    IF scale = 0 THEN <<>>
    ELSE FracDigits(frac \div 10, scale - 1) \o <<ToString(frac % 10)>>

\* Display of a rust_decimal::Decimal [m |-> mantissa, s |-> scale]: the scale is kept.
DecimalDisplay(dec) ==
    IF dec.s = 0 THEN Digits(dec.m)
    ELSE Digits(dec.m \div Pow10(dec.s)) \o <<".">> \o FracDigits(dec.m % Pow10(dec.s), dec.s)

RECURSIVE Join(_, _)
\* [String]::join(sep)
Join(parts, sep) ==
    IF Len(parts) = 0 THEN <<>>
    ELSE IF Len(parts) = 1 THEN parts[1]
    ELSE parts[1] \o sep \o Join(Tail(parts), sep)

\* SubjectMatterType::to_string
SubjectMatterType_to_string(t) ==
    CASE t.tag = "SpecificGoods" -> <<"specific_goods">>
      [] t.tag = "GenericGoods" -> <<"generic_goods">>
      [] t.tag = "Service" -> <<"service">>
      [] t.tag = "IntellectualProperty" -> <<"intellectual_property">>
      [] OTHER -> t.name

\* Display for SubjectMatter: "{name}_{type}"
SubjectMatter_to_string(sm) ==
    sm.name \o <<"_">> \o SubjectMatterType_to_string(sm.subject_type)

\* Debug for QuantityUnit
QuantityUnit_debug(u) ==
    IF u.tag = "Other" THEN <<"Other(\"">> \o u.name \o <<"\")">> ELSE <<u.tag>>

\* sha2::Sha256 followed by hex::encode, collision free.
Sha256Hex(bytes) == <<"sha256(">> \o bytes \o <<")">>

\* The Vec<String> that essential_hash joins with "_".
essential_parts(c) ==
    <<SubjectMatter_to_string(c.subject_matter)>>
    \o (IF c.price = None THEN <<>>
        ELSE <<DecimalDisplay(Unwrap(c.price).amount) \o <<"_">> \o Unwrap(c.price).currency>>)
    \o (IF c.quantity = None THEN <<>>
        ELSE <<DecimalDisplay(Unwrap(c.quantity).amount) \o <<"_">>
               \o QuantityUnit_debug(Unwrap(c.quantity).unit)>>)

\* IntentContent::essential_hash
essential_hash(c) == <<"0x">> \o Sha256Hex(Join(essential_parts(c), <<"_">>))

Goods == [tag |-> "GenericGoods", name |-> <<>>]
Piece == [tag |-> "Piece", name |-> <<>>]

Dec(m, s) == [m |-> m, s |-> s]

MkPrice(amount, currency, payment_method) ==
    [amount |-> amount, currency |-> currency, payment_method |-> payment_method]

MkContent(id, name, description, price, quantity) ==
    [subject_matter |-> [id |-> id, subject_type |-> Goods, name |-> name,
                         description |-> description],
     quantity |-> quantity, price |-> price]

\* The contents callers construct.  c1 and c1b agree on every essential field and
\* differ in subject id, description and payment method; c2 is another deal.
Contents ==
    [c1  |-> MkContent(11, <<"widget">>, <<"blue">>,
                       Some(MkPrice(Dec(100, 0), <<"CNY">>, <<"cash">>)),
                       Some([amount |-> Dec(10, 1), unit |-> Piece])),
     c1b |-> MkContent(12, <<"widget">>, <<"red">>,
                       Some(MkPrice(Dec(100, 0), <<"CNY">>, <<"card">>)),
                       Some([amount |-> Dec(10, 1), unit |-> Piece])),
     c2  |-> MkContent(13, <<"widget">>, <<"blue">>,
                       Some(MkPrice(Dec(200, 0), <<"CNY">>, <<"cash">>)), None)]

ContentNames == DOMAIN Contents

\* The fields essential_hash reads.
EssentialFields(c) ==
    <<c.subject_matter.name, c.subject_matter.subject_type,
      IF c.price = None THEN None
      ELSE Some(<<Unwrap(c.price).amount, Unwrap(c.price).currency>>),
      c.quantity>>

-----------------------------------------------------------------------------
(* Intent declarations (contract/intent/declaration.rs)                    *)

DeclIds == {"d1", "d2"}

DeclarationType ==
    {"Offer", "Acceptance", "CounterOffer", "Revocation", "Withdrawal", "OfferInvitation"}

DeclarationStatus == {"Created", "Effective", "Revoked", "Withdrawn"}

NoDecl == [status |-> "NoDecl"]

NoCall == [op |-> "none", d |-> "none", ok |-> FALSE, pre |-> NoDecl, args |-> <<>>]

\* Uuid Display
Uuid_to_string(id) == <<"uuid-" \o ToString(id)>>

\* Mutation of SortIds: the ids are joined in argument order.
SortIdsUnsorted(ids) == ids

\* Vec<Uuid>::sort on one or two ids.
SortIds(ids) ==
    IF Len(ids) = 2 /\ ids[2] < ids[1] THEN <<ids[2], ids[1]>> ELSE ids

\* IntentDeclaration::calculate_match_code
calculate_match_code(declarant, recipient, content) ==
    LET party_ids == SortIds(<<PartyEntity(declarant).id>>
                             \o (IF recipient = None THEN <<>>
                                 ELSE <<PartyEntity(Unwrap(recipient)).id>>))
        party_str == Join([i \in 1..Len(party_ids) |-> Uuid_to_string(party_ids[i])],
                          <<"|">>)
    IN  Sha256Hex(party_str \o essential_hash(content))

\* Mutation of is_valid: the deadline is not looked at.
is_valid_ignoring_deadline(decl) == decl.status = "Effective"

\* IntentDeclaration::is_valid
is_valid(decl) ==
    IF decl.status # "Effective" THEN FALSE
    ELSE IF decl.valid_until # None /\ now > Unwrap(decl.valid_until) THEN FALSE
    ELSE TRUE

\* IntentDeclaration::can_form_contract_with
can_form_contract_with(self, other) ==
    IF ~is_valid(self) \/ ~is_valid(other) THEN FALSE
    ELSE self.match_code = other.match_code

\* recipient.as_ref().map(|r| r.id())
RecipientId(decl) ==
    IF decl.recipient = None THEN None ELSE Some(PartyEntity(Unwrap(decl.recipient)).id)

\* Mutation of matches: the recipients are not compared.
matches_ignoring_recipient(self, other) ==
    \/ self.match_code = other.match_code
    \/ /\ self.declaration_type = other.declaration_type
       /\ PartyEntity(self.declarant).id = PartyEntity(other.declarant).id

\* Mutation of matches: a declaration without recipient matches whatever
\* recipient the other one has.
matches_absent_recipient_any(self, other) ==
    \/ self.match_code = other.match_code
    \/ /\ self.declaration_type = other.declaration_type
       /\ PartyEntity(self.declarant).id = PartyEntity(other.declarant).id
       /\ (self.recipient = None \/ RecipientId(self) = RecipientId(other))

\* IntentDeclaration::matches
matches(self, other) ==
    \/ self.match_code = other.match_code
    \/ /\ self.declaration_type = other.declaration_type
       /\ PartyEntity(self.declarant).id = PartyEntity(other.declarant).id
       /\ RecipientId(self) = RecipientId(other)

\* Mutation of NewAccepts: the recipient is not checked.
NewAcceptsDeclarantOnly(declarant, recipient) == has_capacity(PartyEntity(declarant))

\* The capacity checks that open IntentDeclaration::new
NewAccepts(declarant, recipient) ==
    IF ~has_capacity(PartyEntity(declarant)) THEN FALSE
    ELSE IF recipient # None /\ ~has_capacity(PartyEntity(Unwrap(recipient))) THEN FALSE
    ELSE TRUE

\* The struct IntentDeclaration::new builds.
NewInstance(declaration_type, declarant, recipient, content, valid_until) ==
    [declaration_type |-> declaration_type,
     declarant |-> declarant,
     recipient |-> recipient,
     content |-> content,
     created_at |-> now,
     valid_until |-> valid_until,
     delivered_at |-> None,
     status |-> "Created",
     match_code |-> calculate_match_code(declarant, recipient, content)]

\* What the caller keeps of a call: its result when observed, nothing when the
\* Result is dropped (`let _ = ...`).
Observe(observed, call) == IF observed THEN call ELSE NoCall

\* let d = IntentDeclaration::new(...)
New(d, declaration_type, declarant, recipient, content, valid_until, observed) ==
    /\ decls[d] = NoDecl
    /\ IF NewAccepts(declarant, recipient)
       THEN /\ decls' = [decls EXCEPT ![d] =
                    NewInstance(declaration_type, declarant, recipient, content, valid_until)]
            /\ ret' = Observe(observed, [op |-> "new", d |-> d, ok |-> TRUE, pre |-> NoDecl,
                                         args |-> <<declarant, recipient>>])
       ELSE /\ decls' = decls
            /\ ret' = Observe(observed, [op |-> "new", d |-> d, ok |-> FALSE, pre |-> NoDecl,
                                         args |-> <<declarant, recipient>>])
    /\ UNCHANGED <<now, callerCopy>>
    /\ UNCHANGED outsideDecl

\* Mutation of MakeEffectiveAllowed: only the terminal statuses are refused.
MakeEffectiveAllowedUnlessTerminal(status) == status \notin {"Revoked", "Withdrawn"}

\* The status each guarded transition requires.
RevokeAllowed(status) == status = "Created"
WithdrawAllowed(status) == status = "Effective"
MakeEffectiveAllowed(status) == status = "Created"

\* IntentDeclaration::revoke
revoke(d, observed) ==
    /\ decls[d] # NoDecl
    /\ IF ~RevokeAllowed(decls[d].status)
       THEN /\ decls' = decls
            /\ ret' = Observe(observed, [op |-> "revoke", d |-> d, ok |-> FALSE,
                                         pre |-> decls[d], args |-> <<>>])
       ELSE /\ decls' = [decls EXCEPT ![d].status = "Revoked"]
            /\ ret' = Observe(observed, [op |-> "revoke", d |-> d, ok |-> TRUE,
                                         pre |-> decls[d], args |-> <<>>])
    /\ UNCHANGED <<now, callerCopy>>
    /\ UNCHANGED outsideDecl

\* IntentDeclaration::withdraw
withdraw(d, observed) ==
    /\ decls[d] # NoDecl
    /\ IF ~WithdrawAllowed(decls[d].status)
       THEN /\ decls' = decls
            /\ ret' = Observe(observed, [op |-> "withdraw", d |-> d, ok |-> FALSE,
                                         pre |-> decls[d], args |-> <<>>])
       ELSE /\ decls' = [decls EXCEPT ![d].status = "Withdrawn"]
            /\ ret' = Observe(observed, [op |-> "withdraw", d |-> d, ok |-> TRUE,
                                         pre |-> decls[d], args |-> <<>>])
    /\ UNCHANGED <<now, callerCopy>>
    /\ UNCHANGED outsideDecl

\* IntentDeclaration::make_effective
make_effective(d, observed) ==
    /\ decls[d] # NoDecl
    /\ IF ~MakeEffectiveAllowed(decls[d].status)
       THEN /\ decls' = decls
            /\ ret' = Observe(observed, [op |-> "make_effective", d |-> d, ok |-> FALSE,
                                         pre |-> decls[d], args |-> <<>>])
       ELSE /\ decls' = [decls EXCEPT ![d].status = "Effective"]
            /\ ret' = Observe(observed, [op |-> "make_effective", d |-> d, ok |-> TRUE,
                                         pre |-> decls[d], args |-> <<>>])
    /\ UNCHANGED <<now, callerCopy>>
    /\ UNCHANGED outsideDecl

\* What mark_as_delivered stores in a declaration: it reads no status.
Delivered(decl) == [decl EXCEPT !.delivered_at = Some(now), !.status = "Effective"]

\* IntentDeclaration::mark_as_delivered
mark_as_delivered(d, observed) ==
    /\ decls[d] # NoDecl
    /\ decls' = [decls EXCEPT ![d] = Delivered(decls[d])]
    /\ ret' = Observe(observed, [op |-> "mark_as_delivered", d |-> d, ok |-> TRUE,
                                 pre |-> decls[d], args |-> <<>>])
    /\ UNCHANGED <<now, callerCopy>>
    /\ UNCHANGED outsideDecl

\* The edit a caller makes to the IntentContent it holds (its fields are pub).
EditedByCaller(c) == [c EXCEPT !.price = None, !.subject_matter.name = <<"gadget">>]

\* Mutation of StoredAfterEdit: content() hands out the stored value itself.
StoredAfterEditByReference(stored, edited) == edited

\* What the declaration holds after a caller edited the value content() returned:
\* content() returns a clone, the stored content is not reachable through it.
StoredAfterEdit(stored, edited) == stored

\* let mut c = d.content(); c.price = None; c.subject_matter = ...;
content_then_edit(d) ==
    /\ decls[d] # NoDecl
    /\ callerCopy = None
    /\ callerCopy' = Some(EditedByCaller(decls[d].content))
    /\ decls' = [decls EXCEPT ![d].content =
                    StoredAfterEdit(decls[d].content, EditedByCaller(decls[d].content))]
    /\ ret' = [op |-> "content", d |-> d, ok |-> TRUE, pre |-> decls[d], args |-> <<>>]
    /\ UNCHANGED now
    /\ UNCHANGED outsideDecl

\* a.can_form_contract_with(&b)
CanFormQuery(a, b) ==
    /\ decls[a] # NoDecl
    /\ decls[b] # NoDecl
    /\ ret' = [op |-> "can_form_contract_with", d |-> a,
               ok |-> can_form_contract_with(decls[a], decls[b]),
               pre |-> decls[a], args |-> <<b, now>>]
    /\ UNCHANGED <<now, decls, callerCopy>>
    /\ UNCHANGED outsideDecl

\* A caller asks decls[a].matches(&decls[b]).
MatchesQuery(a, b) ==
    /\ decls[a] # NoDecl
    /\ decls[b] # NoDecl
    /\ ret' = [op |-> "matches", d |-> a, ok |-> matches(decls[a], decls[b]),
               pre |-> decls[a], args |-> <<b, decls[b]>>]
    /\ UNCHANGED <<now, decls, callerCopy>>
    /\ UNCHANGED outsideDecl

\* A caller holding three declarations asks each of them whether it matches
\* each of them; the nine answers follow the declarations in args.
MatchesAllQuery ==
    /\ Len(ret.args) >= 3
    /\ ret' = [ret EXCEPT !.op = "matches", !.ok = TRUE,
                          !.args = <<ret.args[1], ret.args[2], ret.args[3],
                                     [i \in 1..3 |-> [j \in 1..3 |->
                                         matches(ret.args[i], ret.args[j])]]>>]
    /\ UNCHANGED <<now, decls, callerCopy>>
    /\ UNCHANGED outsideDecl

\* Time passes.
Tick ==
    /\ now < MaxTime
    /\ now' = now + 1
    /\ UNCHANGED <<decls, ret, callerCopy>>
    /\ UNCHANGED outsideDecl

-----------------------------------------------------------------------------
(* Essential terms of a content (contract/intent/content.rs)               *)

\* A HashMap<String, String> is a function from its keys; HashMap::new() is
\* the empty one.
NoTerms == <<>>

\* An IntentContent with the fields is_essential and matches_essential_terms
\* read: IntentContent::new, then time_limit set and add_term called.
FullContent(id, subject_type, name, price, quantity, time_limit, additional_terms) ==
    [subject_matter |-> [id |-> id, subject_type |-> subject_type, name |-> name,
                         description |-> None],
     quantity |-> quantity, price |-> price, time_limit |-> time_limit,
     additional_terms |-> additional_terms]

\* impl PartialEq for Decimal: equality of the numbers, whatever the scales.
Decimal_eq(a, b) == a.m * Pow10(b.s) = b.m * Pow10(a.s)

\* Mutation of SubjectMatter_eq: only the ids are compared.
SubjectMatter_eq_by_id(a, b) == a.id = b.id

\* impl PartialEq for SubjectMatter
SubjectMatter_eq(a, b) ==
    IF a.id = b.id \/ (a.name = b.name /\ a.subject_type = b.subject_type) THEN TRUE ELSE FALSE

\* Mutation of is_essential: a service needs a price only.
is_essential_service_by_price(c) ==
    IF c.subject_matter.name = <<>>
    THEN FALSE
    ELSE CASE c.subject_matter.subject_type.tag = "IntellectualProperty" ->
                  c.price # None /\ DOMAIN c.additional_terms # {}
           [] c.subject_matter.subject_type.tag = "Other" -> TRUE
           [] OTHER -> c.price # None

\* IntentContent::is_essential
is_essential(c) ==
    IF c.subject_matter.name = <<>>
    THEN FALSE
    ELSE CASE c.subject_matter.subject_type.tag \in {"SpecificGoods", "GenericGoods"} ->
                  c.price # None
           [] c.subject_matter.subject_type.tag = "Service" ->
                  c.time_limit # None /\ c.price # None
           [] c.subject_matter.subject_type.tag = "IntellectualProperty" ->
                  c.price # None /\ DOMAIN c.additional_terms # {}
           [] c.subject_matter.subject_type.tag = "Other" -> TRUE

\* IntentContent::matches_essential_terms
matches_essential_terms(self, other) ==
    IF ~SubjectMatter_eq(self.subject_matter, other.subject_matter)
    THEN FALSE
    ELSE IF /\ self.price # None
            /\ other.price # None
            /\ ~Decimal_eq(Unwrap(self.price).amount, Unwrap(other.price).amount)
         THEN FALSE
         ELSE TRUE

\* A caller asks content.is_essential() of the first content at hand.
IsEssentialQuery ==
    /\ Len(ret.args) >= 2
    /\ ret' = [ret EXCEPT !.op = "is_essential", !.ok = is_essential(ret.args[1]),
                          !.args = <<ret.args[1], ret.args[2]>>]
    /\ UNCHANGED <<now, decls, callerCopy>>
    /\ UNCHANGED outsideDecl

\* A caller asks a.matches_essential_terms(&b) of the two contents at hand.
MatchesTermsQuery ==
    /\ Len(ret.args) >= 2
    /\ ret' = [ret EXCEPT !.op = "matches_essential_terms",
                          !.ok = matches_essential_terms(ret.args[1], ret.args[2]),
                          !.args = <<ret.args[1], ret.args[2]>>]
    /\ UNCHANGED <<now, decls, callerCopy>>
    /\ UNCHANGED outsideDecl

\* The fields of an IntentContent that FullContent leaves out.
WithRest(c, quality, location, additional_obligations) ==
    c @@ [quality |-> quality, location |-> location,
          additional_obligations |-> additional_obligations]

\* A caller asks both contents at hand for their essential_hash(); the two
\* returned strings follow the contents in args.
EssentialHashQuery ==
    /\ Len(ret.args) >= 2
    /\ ret' = [ret EXCEPT !.op = "essential_hash", !.ok = TRUE,
                          !.args = <<ret.args[1], ret.args[2],
                                     essential_hash(ret.args[1]),
                                     essential_hash(ret.args[2])>>]
    /\ UNCHANGED <<now, decls, callerCopy>>
    /\ UNCHANGED outsideDecl

\* A caller builds an Offer from A to B about the first content at hand and an
\* Acceptance from B to A about the second, reads both match codes, and asks
\* whether the first content matches the essential terms of the second.
MatchCodeQuery ==
    /\ Len(ret.args) >= 2
    /\ ret' = [ret EXCEPT !.op = "match_code",
                          !.ok = matches_essential_terms(ret.args[1], ret.args[2]),
                          !.args = <<ret.args[1], ret.args[2],
                                     calculate_match_code("A", Some("B"), ret.args[1]),
                                     calculate_match_code("B", Some("A"), ret.args[2])>>]
    /\ UNCHANGED <<now, decls, callerCopy>>
    /\ UNCHANGED outsideDecl

-----------------------------------------------------------------------------
(* Contracts (contract/base.rs)                                            *)

ContractStatus ==
    {"Created", "Effective", "InProgress", "Completed", "Terminated", "Revoked", "Invalid"}

NoContract == [status |-> "NoContract"]

\* The longest list of declarations a contract is built from.
MaxDeclarations == 3

\* BaseContract::new
BaseContract_instance(parties, intent_declarations) ==
    [parties |-> parties,
     intent_declarations |-> intent_declarations,
     created_at |-> now,
     effective_at |-> None,
     status |-> "Created"]

\* BaseContract::validate_parties: "Ok" or the ValidationErrorType
validate_parties(c) ==
    IF Len(c.parties) = 0 THEN "ContractPartyUnqualified"
    ELSE IF \E i \in 1..Len(c.parties) : ~has_capacity(PartyEntity(c.parties[i]))
         THEN "EntityCapacityLacking"
         ELSE "Ok"

\* Iterator::find on the declaration kind: the first one of that kind, if any.
FindKind(ds, kind) ==
    LET hits == {i \in 1..Len(ds) : ds[i].declaration_type = kind}
    IN  IF hits = {} THEN None
        ELSE Some(ds[CHOOSE i \in hits : \A j \in hits : i <= j])

\* BaseContract::validate_declarations
validate_declarations(c) ==
    LET offer == FindKind(c.intent_declarations, "Offer")
        acceptance == FindKind(c.intent_declarations, "Acceptance")
    IN  IF offer = None THEN "ContractElementMissing"
        ELSE IF acceptance = None THEN "ContractElementMissing"
        ELSE IF ~matches_essential_terms(Unwrap(offer).content, Unwrap(acceptance).content)
             THEN "IntentMatchFailure"
             ELSE "Ok"

\* Contract::validate
validate(c) ==
    IF validate_parties(c) # "Ok" THEN validate_parties(c)
    ELSE validate_declarations(c)

\* let mut contract = BaseContract::new(parties, intent_declarations, terms, None)
BaseContract_new(parties, intent_declarations) ==
    /\ contract = NoContract
    /\ contract' = BaseContract_instance(parties, intent_declarations)
    /\ ret' = [op |-> "BaseContract::new", d |-> "contract", ok |-> TRUE, pre |-> contract,
               args |-> <<>>]
    /\ UNCHANGED <<now, decls, callerCopy, calendarYear, plain, org>>
    /\ UNCHANGED <<guardVars, obs, upd>>

\* contract.validate()
Contract_validate ==
    /\ contract # NoContract
    /\ ret' = [op |-> "validate", d |-> "contract", ok |-> validate(contract) = "Ok",
               pre |-> contract, args |-> <<validate(contract)>>]
    /\ UNCHANGED <<now, decls, callerCopy, calendarYear, plain, org, contract>>
    /\ UNCHANGED <<guardVars, obs, upd>>

\* contract.make_effective()
Contract_make_effective ==
    /\ contract # NoContract
    /\ IF validate(contract) # "Ok"
       THEN contract' = contract
       ELSE contract' = [contract EXCEPT !.status = "Effective", !.effective_at = Some(now)]
    /\ ret' = [op |-> "Contract::make_effective", d |-> "contract",
               ok |-> validate(contract) = "Ok", pre |-> contract,
               args |-> <<validate(contract)>>]
    /\ UNCHANGED <<now, decls, callerCopy, calendarYear, plain, org>>
    /\ UNCHANGED <<guardVars, obs, upd>>

\* Mutation of Contract_terminate: a contract that is not yet effective can be
\* terminated as well.
Contract_terminate_from_created ==
    /\ contract # NoContract
    /\ IF contract.status \notin {"Created", "Effective", "InProgress"}
       THEN /\ contract' = contract
            /\ ret' = [op |-> "Contract::terminate", d |-> "contract", ok |-> FALSE,
                       pre |-> contract, args |-> <<"ContractStatusIllegal">>]
       ELSE /\ contract' = [contract EXCEPT !.status = "Terminated"]
            /\ ret' = [op |-> "Contract::terminate", d |-> "contract", ok |-> TRUE,
                       pre |-> contract, args |-> <<"Ok">>]
    /\ UNCHANGED <<now, decls, callerCopy, calendarYear, plain, org>>
    /\ UNCHANGED <<guardVars, obs, upd>>

\* contract.terminate()
Contract_terminate ==
    /\ contract # NoContract
    /\ IF contract.status # "Effective" /\ contract.status # "InProgress"
       THEN /\ contract' = contract
            /\ ret' = [op |-> "Contract::terminate", d |-> "contract", ok |-> FALSE,
                       pre |-> contract, args |-> <<"ContractStatusIllegal">>]
       ELSE /\ contract' = [contract EXCEPT !.status = "Terminated"]
            /\ ret' = [op |-> "Contract::terminate", d |-> "contract", ok |-> TRUE,
                       pre |-> contract, args |-> <<"Ok">>]
    /\ UNCHANGED <<now, decls, callerCopy, calendarYear, plain, org>>
    /\ UNCHANGED <<guardVars, obs, upd>>

-----------------------------------------------------------------------------
(* Sale contracts (contract/types/sale.rs)                                 *)

\* SaleContract::new: the base contract, the subject and the price are stored.
SaleContract_instance(base, subject, price) ==
    [base |-> base, subject |-> subject, price |-> price]

\* TypicalContract::validate_legal_requirements for SaleContract: "Ok" or the
\* ValidationErrorType
validate_legal_requirements(c) ==
    IF c.subject.name = <<>> THEN "ContractElementMissing"
    ELSE IF c.subject.quantity <= 0 THEN "ContractContentIllegal"
    ELSE IF c.price.amount <= 0 THEN "ContractContentIllegal"
    ELSE IF Len(c.base.parties) # 2 THEN "ContractPartyUnqualified"
    ELSE "Ok"

\* Contract::validate for SaleContract: self.base.validate()?, then the legal
\* requirements.
SaleContract_validate_result(c) ==
    IF validate(c.base) # "Ok" THEN validate(c.base)
    ELSE validate_legal_requirements(c)

\* let mut sale = SaleContract::new(base, subject, price, None, None)
SaleContract_new(base, subject, price) ==
    /\ contract = NoContract
    /\ contract' = SaleContract_instance(base, subject, price)
    /\ ret' = [op |-> "SaleContract::new", d |-> "contract", ok |-> TRUE, pre |-> contract,
               args |-> <<>>]
    /\ UNCHANGED <<now, decls, callerCopy, calendarYear, plain, org>>
    /\ UNCHANGED <<guardVars, obs, upd>>

\* sale.validate()
SaleContract_validate ==
    /\ contract # NoContract
    /\ ret' = [op |-> "SaleContract::validate", d |-> "contract",
               ok |-> SaleContract_validate_result(contract) = "Ok",
               pre |-> contract, args |-> <<SaleContract_validate_result(contract)>>]
    /\ UNCHANGED <<now, decls, callerCopy, calendarYear, plain, org, contract>>
    /\ UNCHANGED <<guardVars, obs, upd>>

\* The validation that decides SaleContract::make_effective: it is
\* self.base.make_effective(), which asks self.base.validate().
MadeEffectiveBy(c) == validate(c.base)

\* sale.make_effective()
SaleContract_make_effective ==
    /\ contract # NoContract
    /\ IF MadeEffectiveBy(contract) # "Ok"
       THEN contract' = contract
       ELSE contract' = [contract EXCEPT !.base.status = "Effective",
                                         !.base.effective_at = Some(now)]
    /\ ret' = [op |-> "SaleContract::make_effective", d |-> "contract",
               ok |-> MadeEffectiveBy(contract) = "Ok", pre |-> contract,
               args |-> <<MadeEffectiveBy(contract)>>]
    /\ UNCHANGED <<now, decls, callerCopy, calendarYear, plain, org>>
    /\ UNCHANGED <<guardVars, obs, upd>>

\* sale.terminate(): self.base.terminate()
SaleContract_terminate ==
    /\ contract # NoContract
    /\ IF contract.base.status # "Effective" /\ contract.base.status # "InProgress"
       THEN /\ contract' = contract
            /\ ret' = [op |-> "SaleContract::terminate", d |-> "contract", ok |-> FALSE,
                       pre |-> contract, args |-> <<"ContractStatusIllegal">>]
       ELSE /\ contract' = [contract EXCEPT !.base.status = "Terminated"]
            /\ ret' = [op |-> "SaleContract::terminate", d |-> "contract", ok |-> TRUE,
                       pre |-> contract, args |-> <<"Ok">>]
    /\ UNCHANGED <<now, decls, callerCopy, calendarYear, plain, org>>
    /\ UNCHANGED <<guardVars, obs, upd>>

-----------------------------------------------------------------------------
(* Thread-safe natural persons (core/entity/natural_person.rs)             *)

Threads == {"t1", "t2"}
Handles == {"h1", "h2"}
Persons == {"P", "Q"}
Fields == {"base", "mental_status", "guardian", "is_guardian"}

\* The RwLocks: four per SyncNaturalPerson, and the base lock of the
\* SyncLegalPerson L and of the SyncUnincorporatedOrg O.
LockKeys == (Persons \X Fields) \cup ({"L", "O"} \X {"base"})

\* The SyncNaturalPerson inside each Arc<Mutex<..>> handle.
wraps == [h1 |-> "P", h2 |-> "Q"]

\* The GuardianshipScope each thread passes.
ScopeOf == [t1 |-> {"care"}, t2 |-> {"care", "education"}]

Free == "free"

\* SyncNaturalPerson::new
SyncNaturalPersonNew(id, birth_year, mental_status) ==
    [id |-> id,
     birth_year |-> birth_year,
     mental_status |-> mental_status,
     capacity_status |-> [variant |-> "NaturalPerson",
                          value |-> evaluate_capacity(birth_year, CurrentYear, mental_status)],
     guardian |-> None,
     is_guardian |-> FALSE,
     created_at |-> now,
     updated_at |-> now]

\* SyncNaturalPerson::age: the year difference cast to u8.
age(p) == (CurrentYear - p.birth_year) % 256

\* What SyncNaturalPerson::can_be_guardian computes from the values it read.
can_be_guardian(mental_status, p) ==
    /\ p.capacity_status.variant = "NaturalPerson"
    /\ p.capacity_status.value = "Full"
    /\ mental_status = "Normal"
    /\ age(p) >= 18

\* parking_lot::RwLock: read() waits for a writer, write() for every holder.
CanRead(p, f) == rw[<<p, f>>].writer = Free
CanWrite(p, f) == rw[<<p, f>>].writer = Free /\ rw[<<p, f>>].readers = {}

\* The two handles in the order set_guardian locks them: by address.
LockOrder(ward, guardian) ==
    IF addr[ward] < addr[guardian] THEN <<ward, guardian>> ELSE <<guardian, ward>>

\* The handles behind the names ward_guard and guardian_guard after
\* `let (ward_guard, guardian_guard) = if .. { (ward.., guardian..) } else { (guardian.., ward..) }`
GuardBindings(ward, guardian) ==
    IF addr[ward] < addr[guardian]
    THEN [ward_guard |-> ward, guardian_guard |-> guardian]
    ELSE [ward_guard |-> guardian, guardian_guard |-> ward]

IdleThread ==
    [pc |-> "idle", ward |-> "h1", guardian |-> "h1", scope |-> {}, status |-> "Normal",
     guardian_id |-> 0, result |-> "none"]

\* A thread calls SyncNaturalPerson::set_guardian(&ward, &guardian, scope).
Call(t, ward, guardian) ==
    /\ thr[t].pc = "idle"
    /\ thr' = [thr EXCEPT ![t] = [IdleThread EXCEPT !.pc = "lock_guardian", !.ward = ward,
                                     !.guardian = guardian, !.scope = ScopeOf[t]]]
    /\ UNCHANGED <<addr, mutex, rw, person>>
    /\ UNCHANGED outsideGuard

\* let guardian_guard = guardian.lock();
LockGuardian(t) ==
    /\ thr[t].pc = "lock_guardian"
    /\ mutex[thr[t].guardian] = Free
    /\ mutex' = [mutex EXCEPT ![thr[t].guardian] = t]
    /\ thr' = [thr EXCEPT ![t].pc = "cbg_status"]
    /\ UNCHANGED <<addr, rw, person>>
    /\ UNCHANGED outsideGuard

\* can_be_guardian: let status = self.mental_status.read();
CbgReadStatus(t) ==
    LET p == wraps[thr[t].guardian] IN
    /\ thr[t].pc = "cbg_status"
    /\ CanRead(p, "mental_status")
    /\ rw' = [rw EXCEPT ![<<p, "mental_status">>].readers = @ \cup {t}]
    /\ thr' = [thr EXCEPT ![t].pc = "cbg_base", ![t].status = person[p].mental_status]
    /\ UNCHANGED <<addr, mutex, person>>
    /\ UNCHANGED outsideGuard

\* can_be_guardian: let base = self.base.read(); the result; then, when it is
\* false, `return Err(..)`, which drops guardian_guard.
CbgReadBase(t) ==
    LET p == wraps[thr[t].guardian] IN
    /\ thr[t].pc = "cbg_base"
    /\ CanRead(p, "base")
    /\ rw' = [rw EXCEPT ![<<p, "mental_status">>].readers = @ \ {t}]
    /\ IF can_be_guardian(thr[t].status, person[p])
       THEN /\ thr' = [thr EXCEPT ![t].pc = "read_id"]
            /\ mutex' = mutex
       ELSE /\ thr' = [thr EXCEPT ![t].pc = "done", ![t].result = "Err"]
            /\ mutex' = [mutex EXCEPT ![thr[t].guardian] = Free]
    /\ UNCHANGED <<addr, person>>
    /\ UNCHANGED outsideGuard

\* let base = guardian_guard.base.read(); base.id  -- and the block ends:
\* the read guard and guardian_guard are dropped.
ReadGuardianId(t) ==
    LET p == wraps[thr[t].guardian] IN
    /\ thr[t].pc = "read_id"
    /\ CanRead(p, "base")
    /\ thr' = [thr EXCEPT ![t].pc = "try_first", ![t].guardian_id = person[p].id]
    /\ mutex' = [mutex EXCEPT ![thr[t].guardian] = Free]
    /\ UNCHANGED <<addr, rw, person>>
    /\ UNCHANGED outsideGuard

\* <first>.try_lock().unwrap(): a held lock makes try_lock return None and
\* unwrap panic; the thread holds no lock at that point.
TryLockFirst(t) ==
    LET first == LockOrder(thr[t].ward, thr[t].guardian)[1] IN
    /\ thr[t].pc = "try_first"
    /\ IF mutex[first] = Free
       THEN /\ mutex' = [mutex EXCEPT ![first] = t]
            /\ thr' = [thr EXCEPT ![t].pc = "lock_second"]
       ELSE /\ mutex' = mutex
            /\ thr' = [thr EXCEPT ![t].pc = "panicked", ![t].result = "panic"]
    /\ UNCHANGED <<addr, rw, person>>
    /\ UNCHANGED outsideGuard

\* <second>.lock()
LockSecond(t) ==
    LET second == LockOrder(thr[t].ward, thr[t].guardian)[2] IN
    /\ thr[t].pc = "lock_second"
    /\ mutex[second] = Free
    /\ mutex' = [mutex EXCEPT ![second] = t]
    /\ thr' = [thr EXCEPT ![t].pc = "ward_guardian_w"]
    /\ UNCHANGED <<addr, rw, person>>
    /\ UNCHANGED outsideGuard

\* let mut ward_guardian = ward_guard.guardian.write();
WardGuardianWrite(t) ==
    LET p == wraps[GuardBindings(thr[t].ward, thr[t].guardian).ward_guard] IN
    /\ thr[t].pc = "ward_guardian_w"
    /\ CanWrite(p, "guardian")
    /\ rw' = [rw EXCEPT ![<<p, "guardian">>].writer = t]
    /\ thr' = [thr EXCEPT ![t].pc = "ward_base_w"]
    /\ UNCHANGED <<addr, mutex, person>>
    /\ UNCHANGED outsideGuard

\* let mut ward_base = ward_guard.base.write(); the two assignments; the block
\* ends and both write guards are dropped.
WardBaseWrite(t) ==
    LET p == wraps[GuardBindings(thr[t].ward, thr[t].guardian).ward_guard] IN
    /\ thr[t].pc = "ward_base_w"
    /\ CanWrite(p, "base")
    /\ person' = [person EXCEPT
            ![p].guardian = Some([guardian |-> thr[t].guardian_id, ward |-> person[p].id,
                                  scope |-> thr[t].scope, created_at |-> now,
                                  valid_until |-> None]),
            ![p].updated_at = now]
    /\ rw' = [rw EXCEPT ![<<p, "guardian">>].writer = Free]
    /\ thr' = [thr EXCEPT ![t].pc = "guardian_flag_w"]
    /\ UNCHANGED <<addr, mutex>>
    /\ UNCHANGED outsideGuard

\* let mut guardian_is_guardian = guardian_guard.is_guardian.write();
GuardianFlagWrite(t) ==
    LET p == wraps[GuardBindings(thr[t].ward, thr[t].guardian).guardian_guard] IN
    /\ thr[t].pc = "guardian_flag_w"
    /\ CanWrite(p, "is_guardian")
    /\ rw' = [rw EXCEPT ![<<p, "is_guardian">>].writer = t]
    /\ thr' = [thr EXCEPT ![t].pc = "guardian_base_w"]
    /\ UNCHANGED <<addr, mutex, person>>
    /\ UNCHANGED outsideGuard

\* let mut guardian_base = guardian_guard.base.write(); the two assignments;
\* the block ends and both write guards are dropped.
GuardianBaseWrite(t) ==
    LET p == wraps[GuardBindings(thr[t].ward, thr[t].guardian).guardian_guard] IN
    /\ thr[t].pc = "guardian_base_w"
    /\ CanWrite(p, "base")
    /\ person' = [person EXCEPT ![p].is_guardian = TRUE, ![p].updated_at = now]
    /\ rw' = [rw EXCEPT ![<<p, "is_guardian">>].writer = Free]
    /\ thr' = [thr EXCEPT ![t].pc = "unlock"]
    /\ UNCHANGED <<addr, mutex>>
    /\ UNCHANGED outsideGuard

\* Ok(()): ward_guard and guardian_guard are dropped.
ReturnOk(t) ==
    /\ thr[t].pc = "unlock"
    /\ mutex' = [h \in Handles |-> IF mutex[h] = t THEN Free ELSE mutex[h]]
    /\ thr' = [thr EXCEPT ![t].pc = "done", ![t].result = "Ok"]
    /\ UNCHANGED <<addr, rw, person>>
    /\ UNCHANGED outsideGuard

\* One step of a thread inside set_guardian.
Step(t) ==
    \/ LockGuardian(t)
    \/ CbgReadStatus(t)
    \/ CbgReadBase(t)
    \/ ReadGuardianId(t)
    \/ TryLockFirst(t)
    \/ LockSecond(t)
    \/ WardGuardianWrite(t)
    \/ WardBaseWrite(t)
    \/ GuardianFlagWrite(t)
    \/ GuardianBaseWrite(t)
    \/ ReturnOk(t)

-----------------------------------------------------------------------------
(* Plain natural persons (core/entity/natural_person.rs)                   *)

PlainIds == {"x", "y", "z"}
MentalStatus == {"Normal", "PartiallyImpaired", "SeverelyImpaired"}

MaxYears == 1

NoPerson == [mental_status |-> "NoPerson"]

\* The Uuid::new_v4() each person gets.
PlainUuid == [x |-> 7, y |-> 8, z |-> 9]

\* The GuardianshipScope the caller passes.
PlainScope == {"care"}

\* NaturalPerson::age: the year difference cast to u8.
NaturalPerson_age(p) == (calendarYear - p.birth_year) % 256

\* NaturalPerson::can_be_guardian
NaturalPerson_can_be_guardian(p) ==
    /\ p.capacity_status.variant = "NaturalPerson"
    /\ p.capacity_status.value = "Full"
    /\ p.mental_status = "Normal"
    /\ NaturalPerson_age(p) >= 18

\* The value NaturalPerson::new(birth_date, mental_status) returns.
NaturalPerson_instance(x, birth_year, mental_status) ==
    [id |-> PlainUuid[x],
     birth_year |-> birth_year,
     mental_status |-> mental_status,
     capacity_status |-> [variant |-> "NaturalPerson",
                          value |-> evaluate_capacity(birth_year, calendarYear, mental_status)],
     guardian |-> None,
     is_guardian |-> FALSE,
     created_at |-> now,
     updated_at |-> now]

\* NaturalPerson::new(birth_date, mental_status)
NaturalPerson_new(x, birth_year, mental_status) ==
    /\ plain[x] = NoPerson
    /\ plain' = [plain EXCEPT ![x] = NaturalPerson_instance(x, birth_year, mental_status)]
    /\ ret' = [op |-> "NaturalPerson::new", d |-> x, ok |-> TRUE, pre |-> plain,
               args |-> <<birth_year, mental_status, calendarYear>>]
    /\ UNCHANGED <<now, decls, callerCopy, calendarYear>>
    /\ UNCHANGED <<guardVars, obs, org, contract, upd>>

\* NaturalPerson::update_mental_status(new_status)
NaturalPerson_update_mental_status(x, new_status) ==
    /\ plain[x] # NoPerson
    /\ plain' = [plain EXCEPT
            ![x].mental_status = new_status,
            ![x].capacity_status =
                IF plain[x].capacity_status.variant = "NaturalPerson"
                THEN [variant |-> "NaturalPerson",
                      value |-> evaluate_capacity(plain[x].birth_year, calendarYear, new_status)]
                ELSE @,
            ![x].updated_at = now]
    /\ ret' = [op |-> "update_mental_status", d |-> x, ok |-> TRUE, pre |-> plain,
               args |-> <<new_status, calendarYear>>]
    /\ UNCHANGED <<now, decls, callerCopy, calendarYear>>
    /\ UNCHANGED <<guardVars, obs, org, contract, upd>>

\* Mutation of AfterRefusal: the ward's timestamp is written before the check.
AfterRefusalTouched(persons, ward, guardian) == [persons EXCEPT ![ward].updated_at = now]

\* The two persons after set_guardian returned Err: nothing was assigned.
AfterRefusal(persons, ward, guardian) == persons

\* The two persons after the assignments of a successful set_guardian.
AfterAssignment(persons, ward, guardian, scope) ==
    [persons EXCEPT
        ![ward].guardian = Some([guardian |-> persons[guardian].id, ward |-> persons[ward].id,
                                 scope |-> scope, created_at |-> now, valid_until |-> None]),
        ![ward].updated_at = now,
        ![guardian].is_guardian = TRUE,
        ![guardian].updated_at = now]

\* NaturalPerson::set_guardian(&mut self, guardian: &mut Self, scope); the two
\* exclusive borrows are of different persons.
NaturalPerson_set_guardian(ward, guardian) ==
    /\ ward # guardian
    /\ plain[ward] # NoPerson
    /\ plain[guardian] # NoPerson
    /\ LET ok == NaturalPerson_can_be_guardian(plain[guardian]) IN
        /\ plain' = IF ok THEN AfterAssignment(plain, ward, guardian, PlainScope)
                          ELSE AfterRefusal(plain, ward, guardian)
        /\ ret' = [op |-> "set_guardian", d |-> ward, ok |-> ok, pre |-> plain,
                   args |-> <<guardian, calendarYear>>]
    /\ UNCHANGED <<now, decls, callerCopy, calendarYear>>
    /\ UNCHANGED <<guardVars, obs, org, contract, upd>>

\* The calendar year of Utc::now() moves on.
NewYear ==
    /\ calendarYear < CurrentYear + MaxYears
    /\ calendarYear' = calendarYear + 1
    /\ UNCHANGED <<plain, declVars, guardVars, obs, org, contract, upd>>

-----------------------------------------------------------------------------
(* Legal persons and unincorporated organizations                          *)
(* (core/entity/legal_person.rs, core/entity/unincorporated.rs)            *)

OrgIds == {"L", "O"}
Activities == {"sell", "lend"}
BusinessStatus == {"Normal", "Restricted", "Suspended"}
AuthorityStatus == {"Full", "Limited", "Suspended"}

MaxRestrictions == 2

\* Mutation of LegalPerson_instance: the capacity status is CapacityStatus::default().
LegalPersonWithDefaultCapacity(id) ==
    [id |-> id, entity_type |-> "LegalPerson",
     capacity_status |-> [variant |-> "NaturalPerson", value |-> "None"],
     updated_at |-> now]

\* The value LegalPerson::new returns.
LegalPerson_instance(id) ==
    [id |-> id, entity_type |-> "LegalPerson",
     capacity_status |-> [variant |-> "LegalPerson", status |-> "Normal",
                          permitted |-> {}, restrictions |-> None],
     updated_at |-> now]

\* The value UnincorporatedOrg::new returns.
UnincorporatedOrg_instance(id) ==
    [id |-> id, entity_type |-> "UnincorporatedOrg",
     capacity_status |-> [variant |-> "UnincorporatedOrg", status |-> "Full",
                          permitted |-> {}, restrictions |-> None],
     updated_at |-> now]

\* Vec::contains
Contains(list, a) == \E i \in 1..Len(list) : list[i] = a

\* restrictions.as_ref().map_or(false, |r| r.contains(activity))
Restricted(scope, activity) ==
    IF scope.restrictions = None THEN FALSE ELSE Contains(Unwrap(scope.restrictions), activity)

\* Mutation of can_perform_activity: the restriction list is not consulted.
can_perform_activity_unrestricted(e, kind, activity) ==
    IF e.capacity_status.variant = kind
    THEN e.capacity_status.status # "Suspended" /\ activity \in e.capacity_status.permitted
    ELSE FALSE

\* LegalPerson::can_perform_activity and UnincorporatedOrg::can_perform_activity;
\* kind is the variant the method matches on.
can_perform_activity(e, kind, activity) ==
    IF e.capacity_status.variant = kind
    THEN CASE e.capacity_status.status \in {"Normal", "Full"} ->
                  /\ activity \in e.capacity_status.permitted
                  /\ ~Restricted(e.capacity_status, activity)
           [] e.capacity_status.status \in {"Restricted", "Limited"} ->
                  /\ activity \in e.capacity_status.permitted
                  /\ ~Restricted(e.capacity_status, activity)
           [] e.capacity_status.status = "Suspended" -> FALSE
    ELSE FALSE

\* A mutator of the scope: `if let CapacityStatus::<kind>(scope) = &mut
\* self.base.capacity_status { <change>; updated_at = now; Ok } else { Err }`.
MutateScope(e, kind, op, arg, changed) ==
    LET ok == org[e].capacity_status.variant = kind IN
    /\ org' = IF ok THEN [org EXCEPT ![e].capacity_status = changed, ![e].updated_at = now]
                    ELSE org
    /\ ret' = [op |-> op, d |-> e, ok |-> ok, pre |-> NoDecl, args |-> <<arg>>]
    /\ UNCHANGED <<now, decls, callerCopy, calendarYear, plain>>
    /\ UNCHANGED <<guardVars, obs, contract, upd>>

\* LegalPerson::add_permitted_activity
LegalPerson_add_permitted_activity(e, activity) ==
    MutateScope(e, "LegalPerson", "add_permitted_activity", activity,
                [org[e].capacity_status EXCEPT !.permitted = @ \cup {activity}])

\* LegalPerson::add_restriction
LegalPerson_add_restriction(e, restriction) ==
    /\ Len(IF org[e].capacity_status.restrictions = None THEN <<>>
           ELSE Unwrap(org[e].capacity_status.restrictions)) < MaxRestrictions
    /\ MutateScope(e, "LegalPerson", "add_restriction", restriction,
                   [org[e].capacity_status EXCEPT
                       !.restrictions = IF @ = None THEN Some(<<restriction>>)
                                        ELSE Some(Append(Unwrap(@), restriction))])

\* LegalPerson::update_business_status
LegalPerson_update_business_status(e, new_status) ==
    MutateScope(e, "LegalPerson", "update_business_status", new_status,
                [org[e].capacity_status EXCEPT !.status = new_status])

\* UnincorporatedOrg::add_authority
UnincorporatedOrg_add_authority(e, authority) ==
    MutateScope(e, "UnincorporatedOrg", "add_authority", authority,
                [org[e].capacity_status EXCEPT !.permitted = @ \cup {authority}])

\* UnincorporatedOrg::update_authority_status
UnincorporatedOrg_update_authority_status(e, new_status) ==
    MutateScope(e, "UnincorporatedOrg", "update_authority_status", new_status,
                [org[e].capacity_status EXCEPT !.status = new_status])

\* A caller asks can_perform_activity(activity) of a legal person or an
\* unincorporated organization.
CanPerformQuery(e, activity) ==
    /\ ret' = [op |-> "can_perform_activity", d |-> e,
               ok |-> can_perform_activity(org[e], org[e].entity_type, activity),
               pre |-> NoDecl, args |-> <<activity>>]
    /\ UNCHANGED <<now, decls, callerCopy, calendarYear, plain, org>>
    /\ UNCHANGED <<guardVars, obs, contract, upd>>

\* UnincorporatedOrgType, and the ids of the partners callers hand in.
OrgTypes ==
    {[tag |-> "Partnership", kind |-> "General"], [tag |-> "Partnership", kind |-> "Limited"],
     [tag |-> "IndividualBusiness", kind |-> "none"], [tag |-> "Branch", kind |-> "none"]}
PartnerIds == {41, 42}

\* The longest member list.
MaxMembers == 2

\* UnincorporatedOrg::new(org_type, ..) with the fields of a partnership.
UnincorporatedOrg_new(id, org_type) ==
    [id |-> id, entity_type |-> "UnincorporatedOrg",
     capacity_status |-> [variant |-> "UnincorporatedOrg", status |-> "Full",
                          permitted |-> {}, restrictions |-> None],
     updated_at |-> now,
     org_type |-> org_type,
     executive_partner |-> None,
     members |-> <<>>]

\* match self.org_type { UnincorporatedOrgType::Partnership(_) => .. }
IsPartnership(o) == o.org_type.tag = "Partnership"

\* self.members.iter().any(|p| p.id == partner_id)
IsMember(o, partner_id) == \E i \in 1..Len(o.members) : o.members[i].id = partner_id

\* No thread is inside a method of the thread-safe organization.
NoSyncCall == \A t \in Threads : thr[t].pc = "idle"

\* UnincorporatedOrg::add_partner
UnincorporatedOrg_add_partner(e, partner) ==
    /\ NoSyncCall
    /\ Len(org[e].members) < MaxMembers
    /\ org' = IF IsPartnership(org[e])
              THEN [org EXCEPT ![e].members = Append(@, partner), ![e].updated_at = now]
              ELSE org
    /\ ret' = [op |-> "add_partner", d |-> e, ok |-> IsPartnership(org[e]), pre |-> NoDecl,
               args |-> <<partner.id>>]
    /\ UNCHANGED <<now, decls, callerCopy, calendarYear, plain>>
    /\ UNCHANGED <<guardVars, obs, contract, upd>>

\* Mutation of MemberRequired: any id is taken.
MemberNotRequired(o, partner_id) == TRUE

\* UnincorporatedOrg::set_executive_partner: the id must be a member's.
MemberRequired(o, partner_id) == IsMember(o, partner_id)

\* UnincorporatedOrg::set_executive_partner
UnincorporatedOrg_set_executive_partner(e, partner_id) ==
    LET ok == IsPartnership(org[e]) /\ MemberRequired(org[e], partner_id) IN
    /\ NoSyncCall
    /\ org' = IF ok
              THEN [org EXCEPT ![e].executive_partner = Some(partner_id), ![e].updated_at = now]
              ELSE org
    /\ ret' = [op |-> "set_executive_partner", d |-> e, ok |-> ok, pre |-> NoDecl,
               args |-> <<partner_id>>]
    /\ UNCHANGED <<now, decls, callerCopy, calendarYear, plain>>
    /\ UNCHANGED <<guardVars, obs, contract, upd>>

\* A thread calls SyncUnincorporatedOrg::add_partner or set_executive_partner
\* on O; `match self.org_type` returns the error for other kinds at once.
SyncOrgCall(t, op, partner_id) ==
    /\ thr[t].pc = "idle"
    /\ op = "add_partner" => Len(org["O"].members) < MaxMembers
    /\ thr' = [thr EXCEPT ![t] =
                  [IdleThread EXCEPT
                      !.pc = IF ~IsPartnership(org["O"]) THEN "done"
                             ELSE IF op = "add_partner" THEN "members_push"
                             ELSE "members_read",
                      !.result = IF ~IsPartnership(org["O"]) THEN "Err" ELSE "none"]
                  @@ [op |-> op, partner |-> partner_id]]
    /\ UNCHANGED <<addr, mutex, rw, person>>
    /\ UNCHANGED outsideGuard

\* self.members.write().push(partner);
SyncMembersPush(t) ==
    /\ thr[t].pc = "members_push"
    /\ org' = [org EXCEPT !["O"].members = Append(@, [id |-> thr[t].partner])]
    /\ thr' = [thr EXCEPT ![t].pc = "base_touch"]
    /\ UNCHANGED <<addr, mutex, rw, person>>
    /\ UNCHANGED <<declVars, obs, calendarYear, plain, contract, upd>>

\* let members = self.members.read(); if members.iter().any(..) { drop(members);
\* .. } else { Err(..) }
SyncMembersRead(t) ==
    /\ thr[t].pc = "members_read"
    /\ thr' = IF MemberRequired(org["O"], thr[t].partner)
              THEN [thr EXCEPT ![t].pc = "executive_write"]
              ELSE [thr EXCEPT ![t].pc = "done", ![t].result = "Err"]
    /\ UNCHANGED <<addr, mutex, rw, person>>
    /\ UNCHANGED outsideGuard

\* *self.executive_partner.write() = Some(partner_id);
SyncExecutiveWrite(t) ==
    /\ thr[t].pc = "executive_write"
    /\ org' = [org EXCEPT !["O"].executive_partner = Some(thr[t].partner)]
    /\ thr' = [thr EXCEPT ![t].pc = "base_touch"]
    /\ UNCHANGED <<addr, mutex, rw, person>>
    /\ UNCHANGED <<declVars, obs, calendarYear, plain, contract, upd>>

\* self.base.write().updated_at = Utc::now(); Ok(())
SyncBaseTouch(t) ==
    /\ thr[t].pc = "base_touch"
    /\ CanWrite("O", "base")
    /\ org' = [org EXCEPT !["O"].updated_at = now]
    /\ thr' = [thr EXCEPT ![t].pc = "done", ![t].result = "Ok"]
    /\ UNCHANGED <<addr, mutex, rw, person>>
    /\ UNCHANGED <<declVars, obs, calendarYear, plain, contract, upd>>

\* The caller has the Result; the thread is free for its next call.
SyncOrgReturn(t) ==
    /\ thr[t].pc = "done"
    /\ thr[t].result # "none"
    /\ "op" \in DOMAIN thr[t]
    /\ thr' = [thr EXCEPT ![t] = IdleThread]
    /\ UNCHANGED <<addr, mutex, rw, person>>
    /\ UNCHANGED outsideGuard

\* A reader that holds clones of two persons (a clone shares the field RwLocks
\* and goes through no Mutex) and has read nothing yet.
IdleObserver ==
    [pc |-> "idle", ward |-> "P", guardian |-> "P", record |-> None, flag |-> FALSE]

\* The reader evaluates w.guardian.read().clone().
ObsReadRecord(w, g) ==
    /\ obs.pc = "idle"
    /\ w # g
    /\ CanRead(w, "guardian")
    /\ obs' = [pc |-> "read_flag", ward |-> w, guardian |-> g,
               record |-> person[w].guardian, flag |-> FALSE]
    /\ UNCHANGED <<guardVars, declVars, entVars, upd>>

\* Then it evaluates *g.is_guardian.read().
ObsReadFlag ==
    /\ obs.pc = "read_flag"
    /\ CanRead(obs.guardian, "is_guardian")
    /\ obs' = [obs EXCEPT !.pc = "done", !.flag = person[obs.guardian].is_guardian]
    /\ UNCHANGED <<guardVars, declVars, entVars, upd>>

\* A further thread calling one &self method: update_mental_status on a
\* person, through the person's handle (`h.lock().update_mental_status(..)`) or
\* through a clone; Entity::id on a clone; or a mutator of L or O.
Updater == "u"

IdleUpdater ==
    [pc |-> "idle", op |-> "none", target |-> "P", via |-> "clone", new_status |-> "Normal"]

\* IntentDeclaration::new with the shared persons P and Q as parties:
\* has_capacity and id take base.read() of each of them.
SharedNew(d, declaration_type, declarant, recipient, content) ==
    /\ CanRead(declarant, "base")
    /\ CanRead(recipient, "base")
    /\ New(d, declaration_type, declarant, Some(recipient), content, None, FALSE)

\* The handle that wraps a person.
HandleOf(p) == CHOOSE h \in Handles : wraps[h] = p

\* Mutation of StatusGuardHeld: the write guard of mental_status is dropped
\* right after the assignment.
StatusGuardDropped(holder) == Free

\* update_mental_status: `status`, the write guard of mental_status, lives to
\* the end of the function.
StatusGuardHeld(holder) == holder

\* Mutation of BaseOf: update_mental_status takes the base lock of the other
\* person.
BaseOfOther(p) == IF p = "P" THEN "Q" ELSE "P"

\* update_mental_status: `self.base`, the base lock of the same person.
BaseOf(p) == p

UpdCall(op, target, via, new_status) ==
    /\ upd.pc = "idle"
    /\ upd' = [pc |-> IF op = "update_mental_status"
                      THEN (IF via = "handle" THEN "lock_handle" ELSE "status_w")
                      ELSE "base_lock",
               op |-> op, target |-> target, via |-> via, new_status |-> new_status]
    /\ UNCHANGED <<guardVars, declVars, entVars, obs>>

\* h.lock()
UpdLockHandle ==
    /\ upd.pc = "lock_handle"
    /\ mutex[HandleOf(upd.target)] = Free
    /\ mutex' = [mutex EXCEPT ![HandleOf(upd.target)] = Updater]
    /\ upd' = [upd EXCEPT !.pc = "status_w"]
    /\ UNCHANGED <<addr, rw, person, thr>>
    /\ UNCHANGED <<declVars, entVars, obs>>

\* let mut status = self.mental_status.write(); *status = new_status.clone();
UpdStatusWrite ==
    /\ upd.pc = "status_w"
    /\ CanWrite(upd.target, "mental_status")
    /\ rw' = [rw EXCEPT ![<<upd.target, "mental_status">>].writer = StatusGuardHeld(Updater)]
    /\ person' = [person EXCEPT ![upd.target].mental_status = upd.new_status]
    /\ upd' = [upd EXCEPT !.pc = "base_w"]
    /\ UNCHANGED <<addr, mutex, thr>>
    /\ UNCHANGED <<declVars, entVars, obs>>

\* let mut base = self.base.write();
UpdBaseLock ==
    /\ upd.pc = "base_w"
    /\ CanWrite(BaseOf(upd.target), "base")
    /\ rw' = [rw EXCEPT ![<<BaseOf(upd.target), "base">>].writer = Updater]
    /\ upd' = [upd EXCEPT !.pc = "capacity_w"]
    /\ UNCHANGED <<addr, mutex, person, thr>>
    /\ UNCHANGED <<declVars, entVars, obs>>

\* The capacity is evaluated again, updated_at is set, Ok(()) is returned:
\* both write guards are dropped, and so is the handle's guard.
UpdCapacityWrite ==
    LET p == upd.target IN
    /\ upd.pc = "capacity_w"
    /\ person' = [person EXCEPT
            ![p].capacity_status =
                IF @.variant = "NaturalPerson"
                THEN [variant |-> "NaturalPerson",
                      value |-> evaluate_capacity(person[p].birth_year, CurrentYear,
                                                  upd.new_status)]
                ELSE @,
            ![p].updated_at = now]
    /\ rw' = [k \in LockKeys |->
                 IF rw[k].writer = Updater THEN [rw[k] EXCEPT !.writer = Free] ELSE rw[k]]
    /\ mutex' = [h \in Handles |-> IF mutex[h] = Updater THEN Free ELSE mutex[h]]
    /\ upd' = [upd EXCEPT !.pc = "done"]
    /\ UNCHANGED <<addr, thr>>
    /\ UNCHANGED <<declVars, entVars, obs>>

\* Entity::id on a person, SyncLegalPerson::add_permitted_activity and
\* SyncUnincorporatedOrg::update_authority_status: self.base.read() or
\* self.base.write() is taken.
UpdEntityBaseLock ==
    /\ upd.pc = "base_lock"
    /\ IF upd.op = "id"
       THEN /\ CanRead(upd.target, "base")
            /\ rw' = [rw EXCEPT ![<<upd.target, "base">>].readers = @ \cup {Updater}]
       ELSE /\ CanWrite(upd.target, "base")
            /\ rw' = [rw EXCEPT ![<<upd.target, "base">>].writer = Updater]
    /\ upd' = [upd EXCEPT !.pc = "base_use"]
    /\ UNCHANGED <<addr, mutex, person, thr>>
    /\ UNCHANGED <<declVars, entVars, obs>>

\* The body under that guard, and the guard is dropped.
UpdEntityBaseUse ==
    LET e == upd.target IN
    /\ upd.pc = "base_use"
    /\ org' = CASE upd.op = "add_permitted_activity"
                       /\ org[e].capacity_status.variant = "LegalPerson" ->
                       [org EXCEPT ![e].capacity_status.permitted = @ \cup {"sell"},
                                   ![e].updated_at = now]
                [] upd.op = "update_authority_status"
                       /\ org[e].capacity_status.variant = "UnincorporatedOrg" ->
                       [org EXCEPT ![e].capacity_status.status = "Limited",
                                   ![e].updated_at = now]
                [] OTHER -> org
    /\ rw' = [rw EXCEPT ![<<e, "base">>] = [writer |-> Free, readers |-> @.readers \ {Updater}]]
    /\ upd' = [upd EXCEPT !.pc = "done"]
    /\ UNCHANGED <<addr, mutex, person, thr>>
    /\ UNCHANGED <<declVars, obs, calendarYear, plain, contract>>

\* One step of that thread inside its method.
UpdStep ==
    \/ UpdLockHandle
    \/ UpdStatusWrite
    \/ UpdBaseLock
    \/ UpdCapacityWrite
    \/ UpdEntityBaseLock
    \/ UpdEntityBaseUse

-----------------------------------------------------------------------------
(* Specifications                                                          *)

vars == <<now, decls, ret, callerCopy, addr, mutex, rw, person, thr, obs, calendarYear, plain,
         org, contract, upd>>

\* No declaration has been constructed.
DeclIdle ==
    /\ now = 0
    /\ decls = [d \in DeclIds |-> NoDecl]
    /\ ret = NoCall
    /\ callerCopy = None

\* Two adults behind two handles, no thread inside set_guardian.
GuardIdle ==
    /\ mutex = [h \in Handles |-> Free]
    /\ rw = [k \in LockKeys |-> [writer |-> Free, readers |-> {}]]
    /\ person = [P |-> SyncNaturalPersonNew(2, CurrentYear - 20, "Normal"),
                 Q |-> SyncNaturalPersonNew(1, CurrentYear - 30, "Normal")]
    /\ thr = [t \in Threads |-> IdleThread]
    /\ obs = IdleObserver
    /\ upd = IdleUpdater

\* No plain person has been constructed.
PlainIdle ==
    /\ calendarYear = CurrentYear
    /\ plain = [x \in PlainIds |-> NoPerson]

\* A legal person and an unincorporated organization as their constructors
\* return them.
OrgIdle == org = [L |-> LegalPerson_instance(5), O |-> UnincorporatedOrg_instance(6)]

\* No contract has been constructed.
ContractIdle == contract = NoContract

DeclInit ==
    /\ DeclIdle
    /\ GuardIdle
    /\ PlainIdle
    /\ OrgIdle
    /\ ContractIdle
    /\ addr = [h1 |-> 1, h2 |-> 2]

Option(S) == {None} \cup {Some(x) : x \in S}

\* The deadlines a caller passes: none, or the clock's first instant.
ValidUntils == {None, Some(0)}

\* One declaration, every kind of party, through its whole life; the caller
\* looks at every Result.
Next ==
    \/ \E t \in {"Offer", "Acceptance"}, a \in EntityNames, r \in Option(EntityNames),
          c \in {"c1", "c2"}, v \in ValidUntils :
            New("d1", t, a, r, Contents[c], v, TRUE)
    \/ make_effective("d1", TRUE)
    \/ revoke("d1", TRUE)
    \/ withdraw("d1", TRUE)
    \/ mark_as_delivered("d1", TRUE)
    \/ content_then_edit("d1")
    \/ Tick

Spec == DeclInit /\ [][Next]_vars

\* An offer from A to B and a second declaration between the same people; the
\* caller drops the Results of the transitions and asks whether the two can
\* form a contract.
NextPair ==
    \/ \E r \in {Some("B"), None}, v \in ValidUntils :
          New("d1", "Offer", "A", r, Contents["c1"], v, FALSE)
    \/ \E t \in {"Acceptance", "Offer"}, p \in {<<"B", Some("A")>>, <<"A", Some("B")>>,
                                                  <<"B", None>>, <<"A", None>>},
          c \in ContentNames, v \in ValidUntils :
            New("d2", t, p[1], p[2], Contents[c], v, FALSE)
    \/ \E d \in DeclIds : make_effective(d, FALSE)
    \/ \E d \in DeclIds : revoke(d, FALSE)
    \/ \E d \in DeclIds : withdraw(d, FALSE)
    \/ \E d \in DeclIds : mark_as_delivered(d, FALSE)
    \/ CanFormQuery("d1", "d2")
    \/ CanFormQuery("d2", "d1")
    \/ CanFormQuery("d1", "d1")
    \/ MatchesQuery("d1", "d2")
    \/ Tick

SpecPair == DeclInit /\ [][NextPair]_vars

\* The allocator places the two handles in either order; Q is an adult or a
\* ten-year-old.
GuardInit ==
    /\ DeclIdle
    /\ mutex = [h \in Handles |-> Free]
    /\ rw = [k \in LockKeys |-> [writer |-> Free, readers |-> {}]]
    /\ \E a \in {20, 10} :
          person = [P |-> SyncNaturalPersonNew(2, CurrentYear - 30, "Normal"),
                    Q |-> SyncNaturalPersonNew(1, CurrentYear - a, "Normal")]
    /\ thr = [t \in Threads |-> IdleThread]
    /\ obs = IdleObserver
    /\ upd = IdleUpdater
    /\ PlainIdle
    /\ OrgIdle
    /\ ContractIdle
    /\ addr \in {[h1 |-> 1, h2 |-> 2], [h1 |-> 2, h2 |-> 1]}

\* Two threads, each calling set_guardian once on the shared handles, and a
\* reader looking at the two persons through clones.
NextGuard ==
    \/ \E t \in Threads, w \in Handles, g \in Handles : Call(t, w, g)
    \/ \E t \in Threads : Step(t)
    \/ \E w \in Persons, g \in Persons : ObsReadRecord(w, g)
    \/ ObsReadFlag

SpecGuard == GuardInit /\ [][NextGuard]_vars

\* Every thread that can take a step eventually takes one.
SpecGuardFair == SpecGuard /\ \A t \in Threads : WF_vars(Step(t))

\* One thread in set_guardian and a further thread in one &self method of a
\* person, of L or of O.
NextUpdate ==
    \/ \E w \in Handles, g \in Handles : Call("t1", w, g)
    \/ Step("t1")
    \/ \E p \in Persons, via \in {"handle", "clone"}, st \in MentalStatus :
          UpdCall("update_mental_status", p, via, st)
    \/ \E p \in Persons : UpdCall("id", p, "clone", "Normal")
    \/ UpdCall("add_permitted_activity", "L", "clone", "Normal")
    \/ UpdCall("update_authority_status", "O", "clone", "Normal")
    \/ UpdStep

SpecUpdate == GuardInit /\ [][NextUpdate]_vars

\* The birth years callers pass, as ages in CurrentYear: around the two
\* thresholds of the policy, beyond the range of u8, and a birth date in the
\* coming year.
BirthYears == {CurrentYear - a : a \in {265, 20, 18, 17, 8, 7}} \cup {CurrentYear + 1}

PlainInit ==
    /\ DeclIdle
    /\ GuardIdle
    /\ PlainIdle
    /\ OrgIdle
    /\ ContractIdle
    /\ addr = [h1 |-> 1, h2 |-> 2]

\* A ward x of any age and status, a guardian candidate y, over the turn of a
\* year.
NextPlain ==
    \/ \E b \in BirthYears, m \in MentalStatus : NaturalPerson_new("x", b, m)
    \/ \E b \in {CurrentYear - 20, CurrentYear - 17, CurrentYear + 1},
          m \in {"Normal", "PartiallyImpaired"} : NaturalPerson_new("y", b, m)
    \/ \E x \in PlainIds, m \in MentalStatus : NaturalPerson_update_mental_status(x, m)
    \/ \E w \in PlainIds, g \in PlainIds : NaturalPerson_set_guardian(w, g)
    \/ NewYear

SpecPlain == PlainInit /\ [][NextPlain]_vars

\* Both variants of set_guardian side by side: the plain one on a child x and
\* a candidate y (an adult or a seventeen-year-old), the thread-safe one on the
\* two handles, while the clock runs.
RefusalInit ==
    /\ DeclIdle
    /\ mutex = [h \in Handles |-> Free]
    /\ rw = [k \in LockKeys |-> [writer |-> Free, readers |-> {}]]
    /\ \E a \in {20, 10} :
          person = [P |-> SyncNaturalPersonNew(2, CurrentYear - 30, "Normal"),
                    Q |-> SyncNaturalPersonNew(1, CurrentYear - a, "Normal")]
    /\ thr = [t \in Threads |-> IdleThread]
    /\ obs = IdleObserver
    /\ upd = IdleUpdater
    /\ addr = [h1 |-> 1, h2 |-> 2]
    /\ calendarYear = CurrentYear
    /\ OrgIdle
    /\ ContractIdle
    /\ \E a \in {20, 17} :
          plain = [x |-> NaturalPerson_instance("x", CurrentYear - 10, "Normal"),
                   y |-> NaturalPerson_instance("y", CurrentYear - a, "Normal")]

NextRefusal ==
    \/ \E t \in Threads, w \in Handles, g \in Handles : Call(t, w, g)
    \/ \E t \in Threads : Step(t)
    \/ NaturalPerson_set_guardian("x", "y")
    \/ Tick

SpecRefusal == RefusalInit /\ [][NextRefusal]_vars

\* A child x and two candidates y and z (z an adult or a seventeen-year-old):
\* guardians are assigned and re-assigned in any order while the clock runs.
ReassignInit ==
    /\ DeclIdle
    /\ GuardIdle
    /\ calendarYear = CurrentYear
    /\ OrgIdle
    /\ ContractIdle
    /\ addr = [h1 |-> 1, h2 |-> 2]
    /\ \E a \in {30, 17} :
          plain = [x |-> NaturalPerson_instance("x", CurrentYear - 10, "Normal"),
                   y |-> NaturalPerson_instance("y", CurrentYear - 20, "Normal"),
                   z |-> NaturalPerson_instance("z", CurrentYear - a, "Normal")]

NextReassign ==
    \/ \E w \in PlainIds, g \in PlainIds : NaturalPerson_set_guardian(w, g)
    \/ Tick

SpecReassign == ReassignInit /\ [][NextReassign]_vars

\* A legal person, an unincorporated organization and a natural person under
\* every mutator of their capacity status; the caller asks what each may do.
NextEntities ==
    \/ \E a \in Activities : LegalPerson_add_permitted_activity("L", a)
    \/ \E a \in Activities : LegalPerson_add_restriction("L", a)
    \/ \E st \in BusinessStatus : LegalPerson_update_business_status("L", st)
    \/ \E a \in Activities : UnincorporatedOrg_add_authority("O", a)
    \/ \E st \in AuthorityStatus : UnincorporatedOrg_update_authority_status("O", st)
    \/ \E e \in OrgIds, a \in Activities : CanPerformQuery(e, a)
    \/ \E b \in {CurrentYear - 20, CurrentYear - 10}, m \in MentalStatus :
          NaturalPerson_new("x", b, m)
    \/ \E m \in MentalStatus : NaturalPerson_update_mental_status("x", m)

SpecEntities == PlainInit /\ [][NextEntities]_vars

SubjectKinds ==
    {[tag |-> t, name |-> <<>>] :
        t \in {"SpecificGoods", "GenericGoods", "Service", "IntellectualProperty"}}
    \cup {[tag |-> "Other", name |-> <<"barter">>], [tag |-> "Other", name |-> <<>>]}

\* The contents is_essential is asked about: every kind, with and without a
\* name, a price, a time limit and an extra term.
EssentialInputs ==
    {FullContent(11, k, n, pr, None, tl, at) :
        k \in SubjectKinds, n \in {<<>>, <<"widget">>},
        pr \in {None, Some(MkPrice(Dec(100, 0), <<"CNY">>, <<"cash">>))},
        tl \in {None, Some(1)},
        at \in {NoTerms, [territory |-> <<"worldwide">>]}}

\* The contents compared by matches_essential_terms: two ids, names and kinds;
\* no price, 100 and 100.0 and 200 in two currencies; other fields varying.
MatchInputs ==
    {FullContent(i, k, n, pr, q, None, NoTerms) :
        i \in {11, 12}, k \in {Goods, [tag |-> "Service", name |-> <<>>]},
        n \in {<<"widget">>, <<"gadget">>},
        pr \in {None,
                Some(MkPrice(Dec(100, 0), <<"CNY">>, <<"cash">>)),
                Some(MkPrice(Dec(1000, 1), <<"USD">>, <<"card">>)),
                Some(MkPrice(Dec(200, 0), <<"CNY">>, <<"cash">>))},
        q \in {None, Some([amount |-> Dec(10, 1), unit |-> Piece])}}

\* An offer from the shared person P to the shared person Q and Q's
\* acceptance, while a further thread updates the mental status of either.
NextShared ==
    \/ SharedNew("d1", "Offer", "P", "Q", Contents["c1"])
    \/ SharedNew("d2", "Acceptance", "Q", "P", Contents["c1"])
    \/ \E d \in DeclIds : mark_as_delivered(d, FALSE)
    \/ CanFormQuery("d1", "d2")
    \/ \E p \in Persons, st \in MentalStatus : UpdCall("update_mental_status", p, "clone", st)
    \/ UpdStatusWrite
    \/ UpdBaseLock
    \/ UpdCapacityWrite
    \/ Tick

SpecShared == DeclInit /\ [][NextShared]_vars

\* The declarations a caller compares: offers and acceptances from A to B, from
\* B to A and from A to nobody, about one deal or the other.
RelationInputs ==
    {NewInstance(t, p[1], p[2], Contents[c], None) :
        t \in {"Offer", "Acceptance"},
        p \in {<<"A", Some("B")>>, <<"B", Some("A")>>, <<"A", None>>},
        c \in {"c1", "c2"}}

\* Three declarations at hand, no call made yet.
RelationInit ==
    /\ now = 0
    /\ decls = [d \in DeclIds |-> NoDecl]
    /\ callerCopy = None
    /\ GuardIdle
    /\ PlainIdle
    /\ OrgIdle
    /\ ContractIdle
    /\ addr = [h1 |-> 1, h2 |-> 2]
    /\ \E a \in RelationInputs, b \in RelationInputs, c \in RelationInputs :
          ret = [NoCall EXCEPT !.args = <<a, b, c>>]

NextRelation ==
    \/ MatchesAllQuery
    \/ Tick

SpecRelation == RelationInit /\ [][NextRelation]_vars

\* The declarations a contract is built from: offers from A to B and
\* acceptances from B to A, about one deal or the other, as constructed; and
\* an offer and an acceptance about the first deal that have been delivered.
ContractDeclarations ==
    {NewInstance(t[1], t[2], Some(t[3]), Contents[t[4]], None) :
        t \in {<<"Offer", "A", "B", "c1">>, <<"Offer", "A", "B", "c2">>,
               <<"Acceptance", "B", "A", "c1b">>, <<"Acceptance", "B", "A", "c2">>}}
    \cup {Delivered(NewInstance(t[1], t[2], Some(t[3]), Contents["c1"], None)) :
             t \in {<<"Offer", "A", "B">>, <<"Acceptance", "B", "A">>}}

RECURSIVE SeqsUpTo(_, _)
\* The sequences over S of length at most n.
SeqsUpTo(S, n) ==
    IF n = 0 THEN {<<>>}
    ELSE LET shorter == SeqsUpTo(S, n - 1)
         IN  shorter \cup {Append(q, x) : q \in shorter, x \in S}

\* The party lists: none, two adults, an adult and a ten-year-old, an adult and
\* an organization.
PartyLists == {<<>>, <<"A", "B">>, <<"A", "C">>, <<"B", "U">>}

\* A contract is built from any parties and declarations, then validated, made
\* effective and terminated in any order.
NextContract ==
    \/ /\ contract = NoContract
       /\ \E ps \in PartyLists, ds \in SeqsUpTo(ContractDeclarations, MaxDeclarations) :
             BaseContract_new(ps, ds)
    \/ Contract_validate
    \/ Contract_make_effective
    \/ Contract_terminate
    \/ Tick

SpecContract == DeclInit /\ [][NextContract]_vars

\* An unincorporated organization O whose authority status changes, as
\* declarant, as recipient and as party of a contract with the adult A or the
\* ten-year-old C.
NextOrgParty ==
    \/ \E a \in Activities : UnincorporatedOrg_add_authority("O", a)
    \/ \E st \in AuthorityStatus : UnincorporatedOrg_update_authority_status("O", st)
    \/ \E r \in {"A", "C"} : New("d1", "Offer", "O", Some(r), Contents["c1"], None, TRUE)
    \/ \E r \in {"A", "C"} : New("d2", "Acceptance", r, Some("O"), Contents["c1"], None, TRUE)
    \/ /\ contract = NoContract
       /\ \E ps \in {<<"O">>, <<"A", "O">>, <<"O", "C">>} :
             BaseContract_new(ps, <<NewInstance("Offer", "O", Some("A"), Contents["c1"], None),
                                    NewInstance("Acceptance", "A", Some("O"), Contents["c1"],
                                                None)>>)
    \/ Contract_validate
    \/ Tick

SpecOrgParty == DeclInit /\ [][NextOrgParty]_vars

\* An organization of any kind, no partner yet.
PartnersInit ==
    /\ DeclIdle
    /\ GuardIdle
    /\ PlainIdle
    /\ ContractIdle
    /\ addr = [h1 |-> 1, h2 |-> 2]
    /\ \E k \in OrgTypes :
          org = [L |-> LegalPerson_instance(5), O |-> UnincorporatedOrg_new(6, k)]

\* Partners are added and executive partners set, by &mut self calls and by
\* two threads sharing the thread-safe organization.
NextPartners ==
    \/ \E i \in PartnerIds : UnincorporatedOrg_add_partner("O", [id |-> i])
    \/ \E i \in PartnerIds : UnincorporatedOrg_set_executive_partner("O", i)
    \/ \E t \in Threads, op \in {"add_partner", "set_executive_partner"}, i \in PartnerIds :
          SyncOrgCall(t, op, i)
    \/ \E t \in Threads : SyncMembersPush(t)
    \/ \E t \in Threads : SyncMembersRead(t)
    \/ \E t \in Threads : SyncExecutiveWrite(t)
    \/ \E t \in Threads : SyncBaseTouch(t)
    \/ \E t \in Threads : SyncOrgReturn(t)

SpecPartners == PartnersInit /\ [][NextPartners]_vars

\* The base contracts a sale is built on: no, two or three parties, with or
\* without a ten-year-old; no declarations, or an offer and its acceptance.
SaleBases ==
    {BaseContract_instance(ps, ds) :
        ps \in PartyLists \cup {<<"A", "B", "B">>},
        ds \in {<<>>,
                <<NewInstance("Offer", "A", Some("B"), Contents["c1"], None),
                  NewInstance("Acceptance", "B", Some("A"), Contents["c1b"], None)>>}}

\* The subjects and prices of a sale: with and without a name, quantity and
\* amount negative, zero or positive.
SaleSubjects == {[name |-> n, quantity |-> q] : n \in {<<>>, <<"widget">>}, q \in {-1, 0, 2}}
SalePrices == {[amount |-> a, currency |-> <<"CNY">>] : a \in {-1, 0, 100}}

\* A sale contract is built, then validated, made effective and terminated in
\* any order.
NextSale ==
    \/ /\ contract = NoContract
       /\ \E b \in SaleBases, sm \in SaleSubjects, pr \in SalePrices : SaleContract_new(b, sm, pr)
    \/ SaleContract_validate
    \/ SaleContract_make_effective
    \/ SaleContract_terminate
    \/ Tick

SpecSale == DeclInit /\ [][NextSale]_vars

\* description, time limit, extra terms, quality, location and obligations:
\* all absent, or exactly one of them given.
RestVariants ==
    {<<None, None, NoTerms, None, None, <<>>>>,
     <<Some(<<"blue">>), None, NoTerms, None, None, <<>>>>,
     <<None, Some(1), NoTerms, None, None, <<>>>>,
     <<None, None, [territory |-> <<"worldwide">>], None, None, <<>>>>,
     <<None, None, NoTerms, Some(<<"grade A">>), None, <<>>>>,
     <<None, None, NoTerms, None, Some(<<"Beijing">>), <<>>>>,
     <<None, None, NoTerms, None, None, <<<<"packaging">>>>>>}

\* The contents essential_hash is asked about: two kinds; no price, 100 paid in
\* cash or by card, 100.0 and 100 in another currency; no quantity, 1.0 piece
\* or 1.0 kilogram; and the other fields varying one at a time.
HashInputs ==
    {WithRest([FullContent(11, k, <<"widget">>, pr, q, r[2], r[3])
                   EXCEPT !.subject_matter.description = r[1]],
              r[4], r[5], r[6]) :
        k \in {Goods, [tag |-> "Service", name |-> <<>>]},
        pr \in {None,
                Some(MkPrice(Dec(100, 0), <<"CNY">>, <<"cash">>)),
                Some(MkPrice(Dec(100, 0), <<"CNY">>, <<"card">>)),
                Some(MkPrice(Dec(1000, 1), <<"CNY">>, <<"cash">>)),
                Some(MkPrice(Dec(100, 0), <<"USD">>, <<"cash">>))},
        q \in {None, Some([amount |-> Dec(10, 1), unit |-> Piece]),
               Some([amount |-> Dec(10, 1), unit |-> [tag |-> "Kilogram", name |-> <<>>]])},
        r \in RestVariants}

\* Contents whose texts hold the separator: names "a" and "a_b", kinds
\* Other("c") and Other("b_c"); a price of 1 in the currency "Piece" or "CNY", a
\* quantity of 1 Piece, or neither.
EncodingInputs ==
    {FullContent(11, k, n, pr, q, None, NoTerms) :
        k \in {Goods, [tag |-> "Other", name |-> <<"c">>],
               [tag |-> "Other", name |-> <<"b", "_", "c">>]},
        n \in {<<"a">>, <<"a", "_", "b">>},
        pr \in {None, Some(MkPrice(Dec(1, 0), <<"Piece">>, <<"cash">>)),
                Some(MkPrice(Dec(1, 0), <<"CNY">>, <<"cash">>))},
        q \in {None, Some([amount |-> Dec(1, 0), unit |-> Piece])}}

\* Two contents at hand, no call made yet.
ContentInit ==
    /\ now = 0
    /\ decls = [d \in DeclIds |-> NoDecl]
    /\ callerCopy = None
    /\ GuardIdle
    /\ PlainIdle
    /\ OrgIdle
    /\ ContractIdle
    /\ addr = [h1 |-> 1, h2 |-> 2]
    /\ \/ \E a \in EssentialInputs \cup MatchInputs, b \in EssentialInputs \cup MatchInputs :
              ret = [NoCall EXCEPT !.args = <<a, b>>]
       \/ \E a \in HashInputs, b \in HashInputs :
              ret = [NoCall EXCEPT !.args = <<a, b>>]
       \/ \E a \in EncodingInputs, b \in EncodingInputs :
              ret = [NoCall EXCEPT !.args = <<a, b>>]

NextContent ==
    \/ IsEssentialQuery
    \/ MatchesTermsQuery
    \/ EssentialHashQuery
    \/ MatchCodeQuery

SpecContent == ContentInit /\ [][NextContent]_vars

-----------------------------------------------------------------------------
(* Properties of the declaration life cycle                                *)

LifecycleOps == {"make_effective", "revoke", "withdraw", "mark_as_delivered"}

\* What one of the three guarded transitions did, as the caller saw it: it
\* succeeded exactly from `from`, a success left the status `to`.
TransitionRule(op, from, to) ==
    ret.op = op =>
        /\ ret.ok <=> ret.pre.status = from
        /\ ret.ok => decls[ret.d].status = to

C1_TransitionRules ==
    /\ TransitionRule("make_effective", "Created", "Effective")
    /\ TransitionRule("revoke", "Created", "Revoked")
    /\ TransitionRule("withdraw", "Effective", "Withdrawn")

C1_NeverCreatedAgain ==
    [][\A d \in DeclIds :
          decls[d].status \notin {"NoDecl", "Created"} => decls'[d].status # "Created"]_vars

\* C1: make_effective succeeds exactly when the status is Created and leaves it
\* Effective, revoke succeeds exactly when it is Created and leaves it Revoked,
\* withdraw succeeds exactly when it is Effective and leaves it Withdrawn; and no
\* call brings a declaration back to Created, so a second make_effective fails,
\* revoke after make_effective fails and withdraw on a fresh declaration fails.
C1_Lifecycle == []C1_TransitionRules /\ C1_NeverCreatedAgain

\* A second make_effective, made on an Effective declaration, has failed.
C1_Witness ==
    /\ ret.op = "make_effective"
    /\ ~ret.ok
    /\ ret.pre.status = "Effective"

\* C2: once a declaration's status is Revoked or Withdrawn, no call of
\* make_effective, revoke, withdraw or mark_as_delivered changes it.
C2_TerminalStatuses ==
    [][\A d \in DeclIds :
          decls[d].status \in {"Revoked", "Withdrawn"} =>
              decls'[d].status = decls[d].status]_vars

\* The statuses from which the life cycle Created -> Effective ->
\* {Revoked | Withdrawn} lets each transition start.
LifecycleAllows(op, status) ==
    CASE op = "make_effective" -> status = "Created"
      [] op = "revoke" -> status = "Created"
      [] op = "withdraw" -> status = "Effective"
      [] op = "mark_as_delivered" -> status \in {"Created", "Effective"}

\* C3: a life-cycle call made from a status in which its transition is illegal
\* returns an error and leaves the declaration (status, delivery time, match
\* code) as it was.
C3_IllegalCallsRejected ==
    (ret.op \in LifecycleOps /\ ~LifecycleAllows(ret.op, ret.pre.status)) =>
        /\ ~ret.ok
        /\ decls[ret.d] = ret.pre

C6_MatchCodeIsDigest ==
    \A d \in DeclIds :
        decls[d] # NoDecl =>
            decls[d].match_code =
                calculate_match_code(decls[d].declarant, decls[d].recipient, decls[d].content)

C6_MatchCodeKept ==
    [][\A d \in DeclIds : decls[d] # NoDecl => decls'[d].match_code = decls[d].match_code]_vars

\* C6: no call changes a declaration's match code after construction, and in
\* every state the match code is the digest of the declaration's current
\* parties and content (an edit of the value content() returned included).
C6_MatchCodeImmutable == []C6_MatchCodeIsDigest /\ C6_MatchCodeKept

\* The caller holds an edited content that differs from the stored one, and the
\* declaration went through delivery and withdrawal.
C6_Witness ==
    /\ decls["d1"].status = "Withdrawn"
    /\ decls["d1"].delivered_at # None
    /\ callerCopy # None
    /\ callerCopy # Some(decls["d1"].content)

\* A party IntentDeclaration::new may accept: a natural person whose capacity
\* status is Full, or an unincorporated organization.
CapableParty(e) ==
    \/ e.entity_type = "NaturalPerson" /\ e.capacity_status.value = "Full"
    \/ e.entity_type = "UnincorporatedOrg"

\* C7: IntentDeclaration::new succeeds exactly when the declarant and the
\* recipient, if there is one, have capacity; a failure leaves no declaration,
\* a success leaves one in status Created with no delivery time.
C7_NewChecksCapacity ==
    ret.op = "new" =>
        /\ ret.ok <=>
              /\ CapableParty(Entities[ret.args[1]])
              /\ ret.args[2] = None \/ CapableParty(Entities[Unwrap(ret.args[2])])
        /\ ~ret.ok => decls[ret.d] = NoDecl
        /\ ret.ok =>
              /\ decls[ret.d].status = "Created"
              /\ decls[ret.d].delivered_at = None

\* new was refused for a capable declarant because of the recipient.
C7_Witness ==
    /\ ret.op = "new"
    /\ ~ret.ok
    /\ ret.args = <<"A", Some("C")>>

-----------------------------------------------------------------------------
(* Properties of natural persons                                           *)

\* The capacity policy, for an age in whole calendar years.
CapacityPolicy(a, mental_status) ==
    CASE mental_status = "Normal" /\ a >= 18 -> "Full"
      [] mental_status = "Normal" /\ a >= 8 /\ a < 18 -> "Limited"
      [] mental_status = "PartiallyImpaired" -> "Limited"
      [] mental_status = "SeverelyImpaired" -> "None"
      [] OTHER -> "None"

\* C13: set_guardian succeeds exactly when the prospective guardian has Full
\* capacity status, Normal mental status and an age (calendar years since
\* birth) of at least 18.
C13_SucceedsIffEligible ==
    ret.op = "set_guardian" =>
        LET g == ret.pre[ret.args[1]]
            at == ret.args[2]
        IN  ret.ok <=>
                /\ g.capacity_status = [variant |-> "NaturalPerson", value |-> "Full"]
                /\ g.mental_status = "Normal"
                /\ at - g.birth_year >= 18

\* The places of set_guardian up to the eligibility check.
BeforeCheck == {"idle", "lock_guardian", "cbg_status", "cbg_base"}

C14_PlainRefusal == (ret.op = "set_guardian" /\ ~ret.ok) => plain = ret.pre

C14_SyncRefusal ==
    [][\A t \in Threads :
          (thr[t].pc \in BeforeCheck /\ thr'[t] # thr[t]) => person' = person]_vars

\* C14: a set_guardian call that fails because the guardian is ineligible
\* changes nothing on either party, in either variant: the plain call leaves
\* both persons as they were, and no step of the thread-safe call up to and
\* including its Err return writes a field of any person.
C14_RefusalMutatesNothing == []C14_PlainRefusal /\ C14_SyncRefusal

\* Both variants have refused a seventeen- and a ten-year-old guardian, at an
\* instant later than the persons' timestamps.
C14_Witness ==
    /\ ret.op = "set_guardian"
    /\ ~ret.ok
    /\ now > plain[ret.d].updated_at
    /\ \E t \in Threads :
          /\ thr[t].result = "Err"
          /\ now > person[wraps[thr[t].ward]].updated_at

\* C15: the capacity stored by NaturalPerson::new and by update_mental_status is
\* the policy applied to the difference of calendar years and the mental status.
C15_CapacityFollowsPolicy ==
    ret.op \in {"NaturalPerson::new", "update_mental_status"} =>
        LET p == plain[ret.d]
            at == ret.args[Len(ret.args)]
        IN  p.capacity_status =
                [variant |-> "NaturalPerson",
                 value |-> CapacityPolicy(at - p.birth_year, p.mental_status)]

\* C16: in every state a natural person's capacity status is the policy applied
\* to its current age and current mental status.
C16_CapacityIsDerived ==
    \A x \in PlainIds :
        plain[x] # NoPerson =>
            plain[x].capacity_status.value =
                CapacityPolicy(calendarYear - plain[x].birth_year, plain[x].mental_status)

\* C29: after any sequence of successful and failed assignments, a person's
\* is_guardian flag is set exactly when the guardianship record of at least one
\* ward names that person as guardian.
C29_FlagIffSomeWard ==
    \A g \in PlainIds :
        plain[g] # NoPerson =>
            (plain[g].is_guardian <=>
                \E w \in PlainIds :
                    /\ plain[w] # NoPerson
                    /\ plain[w].guardian # None
                    /\ Unwrap(plain[w].guardian).guardian = plain[g].id)

\* The ward x, once under y, has just been assigned to z.
C29_Witness ==
    /\ ret.op = "set_guardian"
    /\ ret.ok
    /\ ret.d = "x"
    /\ ret.pre["x"].guardian # None
    /\ Unwrap(ret.pre["x"].guardian).guardian = plain["y"].id
    /\ Unwrap(plain["x"].guardian).guardian = plain["z"].id

\* C30: a person of Normal mental status whose difference of calendar years is
\* below 8, a negative difference included, has capacity None and cannot be a
\* guardian.
C30_BelowEightHasNoCapacity ==
    \A x \in PlainIds :
        (/\ plain[x] # NoPerson
         /\ plain[x].mental_status = "Normal"
         /\ calendarYear - plain[x].birth_year < 8) =>
            /\ plain[x].capacity_status.value = "None"
            /\ ~NaturalPerson_can_be_guardian(plain[x])

\* A person born in the year after the current one has been constructed.
C30_Witness ==
    /\ ret.op = "NaturalPerson::new"
    /\ plain[ret.d].mental_status = "Normal"
    /\ ret.args[3] - ret.args[1] < 0

-----------------------------------------------------------------------------
(* Properties of capacity status and activities                            *)

C17_VariantMatchesKind ==
    /\ org["L"].entity_type = "LegalPerson"
    /\ org["O"].entity_type = "UnincorporatedOrg"
    /\ \A e \in OrgIds : org[e].capacity_status.variant = org[e].entity_type
    /\ \A x \in PlainIds :
          plain[x] # NoPerson => plain[x].capacity_status.variant = "NaturalPerson"
    /\ \A p \in Persons : person[p].capacity_status.variant = "NaturalPerson"

C17_VariantKept ==
    [][/\ \A e \in OrgIds :
             org'[e].capacity_status.variant = org[e].capacity_status.variant
       /\ \A x \in PlainIds :
             plain[x] # NoPerson =>
                 plain'[x].capacity_status.variant = plain[x].capacity_status.variant]_vars

\* C17: in every state the variant of an entity's capacity status is that of its
\* kind (natural capacity, business scope, authority scope), and no mutator
\* changes the variant.
C17_CapacityShape == []C17_VariantMatchesKind /\ C17_VariantKept

\* Every kind of entity has been through its mutators.
C17_Witness ==
    /\ org["L"].capacity_status.status = "Suspended"
    /\ org["L"].capacity_status.restrictions # None
    /\ org["L"].capacity_status.permitted # {}
    /\ org["O"].capacity_status.status = "Limited"
    /\ org["O"].capacity_status.permitted # {}
    /\ ret.op = "update_mental_status"
    /\ plain["x"].capacity_status.value = "None"

\* C18: can_perform_activity(x) is true exactly when the status is not
\* Suspended, x is in the permitted set and x is not in the restriction list.
C18_CanPerformRule ==
    ret.op = "can_perform_activity" =>
        LET scope == org[ret.d].capacity_status
            x == ret.args[1]
        IN  ret.ok <=>
                /\ scope.status # "Suspended"
                /\ x \in scope.permitted
                /\ \/ scope.restrictions = None
                   \/ \A i \in 1..Len(Unwrap(scope.restrictions)) :
                          Unwrap(scope.restrictions)[i] # x

\* A permitted activity of a legal person in Normal status was refused: it is
\* on the restriction list.
C18_Witness ==
    /\ ret.op = "can_perform_activity"
    /\ ~ret.ok
    /\ ret.d = "L"
    /\ org["L"].capacity_status.status = "Normal"
    /\ ret.args[1] \in org["L"].capacity_status.permitted

-----------------------------------------------------------------------------
(* Properties of essential terms                                           *)

\* What each subject-matter kind requires.
KindRule(c) ==
    CASE c.subject_matter.subject_type.tag \in {"SpecificGoods", "GenericGoods"} ->
             c.price # None
      [] c.subject_matter.subject_type.tag = "Service" ->
             c.time_limit # None /\ c.price # None
      [] c.subject_matter.subject_type.tag = "IntellectualProperty" ->
             c.price # None /\ DOMAIN c.additional_terms # {}
      [] OTHER -> TRUE

\* C19 as stated: is_essential returns, by kind: for goods whether a price is
\* present, for services whether a time limit and a price are present, for
\* intellectual property whether a price and an extra term are present, for any
\* other kind always true.
C19_EssentialByKind ==
    ret.op = "is_essential" => (ret.ok <=> KindRule(ret.args[1]))

\* C19, amended: is_essential returns false when the subject matter's name is
\* empty, and otherwise what the kind requires.
C19_EssentialByNameAndKind ==
    ret.op = "is_essential" =>
        (ret.ok <=> (ret.args[1].subject_matter.name # <<>> /\ KindRule(ret.args[1])))

\* A content of kind Other("") with an empty name, as Default gives it, is not
\* essential.
C19_Witness ==
    /\ ret.op = "is_essential"
    /\ ~ret.ok
    /\ ret.args[1].subject_matter.subject_type = [tag |-> "Other", name |-> <<>>]
    /\ ret.args[1].subject_matter.name = <<>>

\* C20: matches_essential_terms(a, b) is true exactly when the subject matters
\* are equal (same id, or same name and same kind) and, if both specify a price,
\* the amounts are equal; nothing else enters.
C20_MatchesTermsRule ==
    ret.op = "matches_essential_terms" =>
        LET a == ret.args[1]
            b == ret.args[2]
        IN  ret.ok <=>
                /\ \/ a.subject_matter.id = b.subject_matter.id
                   \/ /\ a.subject_matter.name = b.subject_matter.name
                      /\ a.subject_matter.subject_type = b.subject_matter.subject_type
                /\ (a.price # None /\ b.price # None) =>
                       Unwrap(a.price).amount.m * Pow10(Unwrap(b.price).amount.s)
                           = Unwrap(b.price).amount.m * Pow10(Unwrap(a.price).amount.s)

\* Two contents with different ids match by name and kind although currency,
\* payment method and quantity differ.
C20_Witness ==
    /\ ret.op = "matches_essential_terms"
    /\ ret.ok
    /\ ret.args[1].subject_matter.id # ret.args[2].subject_matter.id
    /\ ret.args[1].price # None
    /\ ret.args[2].price # None
    /\ Unwrap(ret.args[1].price).currency # Unwrap(ret.args[2].price).currency
    /\ ret.args[1].quantity # ret.args[2].quantity

\* Two decimals are the same amount.
SameAmount(x, y) == x.m * Pow10(y.s) = y.m * Pow10(x.s)

\* The two contents agree on the subject matter's identity string, on the price
\* amount and currency if a price is present, and on the quantity amount and
\* unit if a quantity is present.
AgreeOnEssentials(a, b) ==
    /\ SubjectMatter_to_string(a.subject_matter) = SubjectMatter_to_string(b.subject_matter)
    /\ (a.price = None) <=> (b.price = None)
    /\ a.price # None =>
           /\ SameAmount(Unwrap(a.price).amount, Unwrap(b.price).amount)
           /\ Unwrap(a.price).currency = Unwrap(b.price).currency
    /\ (a.quantity = None) <=> (b.quantity = None)
    /\ a.quantity # None =>
           /\ SameAmount(Unwrap(a.quantity).amount, Unwrap(b.quantity).amount)
           /\ Unwrap(a.quantity).unit = Unwrap(b.quantity).unit

\* C21: essential_hash is determined by the subject matter's identity string,
\* the price amount and currency if present and the quantity amount and unit if
\* present: two contents agreeing on these have the same hash, whatever their
\* other fields.
C21_HashDeterminedByEssentials ==
    (ret.op = "essential_hash" /\ AgreeOnEssentials(ret.args[1], ret.args[2]))
        => ret.args[3] = ret.args[4]

\* Two contents with the same subject matter and currency and the prices 100
\* and 100.0 have been hashed.
C21_Witness ==
    /\ ret.op = "essential_hash"
    /\ AgreeOnEssentials(ret.args[1], ret.args[2])
    /\ ret.args[1].price # None
    /\ Unwrap(ret.args[1].price).amount # Unwrap(ret.args[2].price).amount

\* C22: matches(a, b) is true exactly when the match codes are equal, or the
\* two declarations have the same kind, the same declarant id and the same
\* recipient id (both absent, or both present and equal); status and deadline
\* do not enter.
C22_MatchesRule ==
    ret.op = "matches" =>
        LET a == ret.pre
            b == ret.args[2]
        IN  ret.ok <=>
                \/ a.match_code = b.match_code
                \/ /\ a.declaration_type = b.declaration_type
                   /\ Entities[a.declarant].id = Entities[b.declarant].id
                   /\ \/ a.recipient = None /\ b.recipient = None
                      \/ /\ a.recipient # None
                         /\ b.recipient # None
                         /\ Entities[Unwrap(a.recipient)].id = Entities[Unwrap(b.recipient)].id

\* Two declarations of the same kind between the same people match although
\* their match codes, statuses and deadlines differ.
C22_Witness ==
    /\ ret.op = "matches"
    /\ ret.ok
    /\ ret.pre.match_code # ret.args[2].match_code
    /\ ret.pre.status # ret.args[2].status
    /\ ret.pre.valid_until # ret.args[2].valid_until

-----------------------------------------------------------------------------
(* Properties of contracts                                                 *)

\* Some offer and some acceptance of the list agree on the essential terms.
SomePairMatches(ds) ==
    \E i \in 1..Len(ds), j \in 1..Len(ds) :
        /\ ds[i].declaration_type = "Offer"
        /\ ds[j].declaration_type = "Acceptance"
        /\ matches_essential_terms(ds[i].content, ds[j].content)

\* C23: validate succeeds exactly when the party list is non-empty, every party
\* has capacity, and the declarations contain an Offer and an Acceptance, at any
\* positions, whose contents match on the essential terms.
C23_ValidateRule ==
    ret.op = "validate" =>
        (ret.ok <=>
            /\ Len(ret.pre.parties) > 0
            /\ \A i \in 1..Len(ret.pre.parties) : has_capacity(Entities[ret.pre.parties[i]])
            /\ SomePairMatches(ret.pre.intent_declarations))

\* validate has been asked about a contract of capable parties holding two
\* offers and an acceptance that matches one of them.
C23_Witness ==
    /\ ret.op = "validate"
    /\ validate_parties(ret.pre) = "Ok"
    /\ SomePairMatches(ret.pre.intent_declarations)
    /\ Len(ret.pre.intent_declarations) = 3

\* The edges of Created -> Effective -> {InProgress -> Completed | Terminated |
\* Revoked | Invalid}.
ContractEdges ==
    {<<"Created", "Effective">>, <<"Effective", "InProgress">>,
     <<"InProgress", "Completed">>, <<"Effective", "Terminated">>,
     <<"Effective", "Revoked">>, <<"Effective", "Invalid">>}

\* C24: the status of a contract only moves along the edges of its life cycle;
\* in particular make_effective changes it only from Created, and a contract
\* past Effective never becomes Effective again.
C24_StatusMoves ==
    [][(contract # NoContract /\ contract'.status # contract.status)
          => <<contract.status, contract'.status>> \in ContractEdges]_vars

\* A terminated contract has been made effective again.
C24_Witness ==
    /\ ret.op = "Contract::make_effective"
    /\ ret.ok
    /\ ret.pre.status = "Terminated"
    /\ contract.status = "Effective"

\* C32: can_form_contract_with never returns true for two declarations of the
\* same kind, nor for a declaration paired with itself: when it returns true,
\* one declaration is an offer and the other an Acceptance.
C32_FormedByOfferAndAcceptance ==
    [][\A a \in DeclIds, b \in DeclIds :
          (CanFormQuery(a, b) /\ ret'.ok) =>
              /\ a # b
              /\ {decls[a].declaration_type, decls[b].declaration_type}
                     \in {{"Offer", "Acceptance"}, {"CounterOffer", "Acceptance"}}]_vars

\* can_form_contract_with has answered true for two Offers held in different
\* declarations.
C32_Witness ==
    /\ ret.op = "can_form_contract_with"
    /\ ret.ok
    /\ ret.d # ret.args[1]
    /\ ret.pre.declaration_type = "Offer"
    /\ decls[ret.args[1]].declaration_type = "Offer"

\* C33: whenever can_form_contract_with returns true, the declarant and the
\* recipient of both declarations have capacity at that moment.
C33_PartiesCapableWhenFormed ==
    [][(CanFormQuery("d1", "d2") /\ ret'.ok) =>
          \A d \in DeclIds :
              /\ has_capacity(PartyEntity(decls[d].declarant))
              /\ has_capacity(PartyEntity(Unwrap(decls[d].recipient)))]_vars

\* can_form_contract_with has answered true for the offer and the acceptance
\* of P and Q after update_mental_status has returned and left one of them
\* without capacity.
C33_Witness ==
    /\ ret.op = "can_form_contract_with"
    /\ ret.ok
    /\ upd.pc = "done"
    /\ \E p \in Persons : ~has_capacity(PartyEntity(p))
    /\ \A d \in DeclIds : decls[d] # NoDecl /\ decls[d].declarant \in Persons

\* C34: if two declarations name the same two parties and their contents
\* satisfy matches_essential_terms, their match codes are equal.
C34_MatchingTermsGiveEqualCodes ==
    (ret.op = "match_code" /\ ret.ok) => ret.args[3] = ret.args[4]

\* Two contents about the same subject matter and the same price amount, in
\* different currencies, match on essential terms; the match codes of the
\* declarations between A and B built on them differ.
C34_Witness ==
    /\ ret.op = "match_code"
    /\ ret.ok
    /\ ret.args[3] # ret.args[4]
    /\ ret.args[1].subject_matter = ret.args[2].subject_matter
    /\ ret.args[1].price # None
    /\ ret.args[2].price # None
    /\ Unwrap(ret.args[1].price).amount = Unwrap(ret.args[2].price).amount
    /\ Unwrap(ret.args[1].price).currency # Unwrap(ret.args[2].price).currency

\* Some Offer and some Acceptance among the declarations can form a contract
\* with each other now.
SomePairCanForm(ds) ==
    \E i \in 1..Len(ds), j \in 1..Len(ds) :
        /\ ds[i].declaration_type = "Offer"
        /\ ds[j].declaration_type = "Acceptance"
        /\ can_form_contract_with(ds[i], ds[j])

\* C35: make_effective of a contract succeeds only if its offer and its
\* acceptance can form a contract with each other at that moment: both are
\* valid and their match codes are equal.
C35_EffectiveOnlyIfFormable ==
    [][(Contract_make_effective /\ ret'.ok) => SomePairCanForm(contract.intent_declarations)]_vars

\* make_effective has succeeded on a contract none of whose declarations was
\* ever made effective.
C35_Witness ==
    /\ ret.op = "Contract::make_effective"
    /\ ret.ok
    /\ contract.status = "Effective"
    /\ \A i \in 1..Len(contract.intent_declarations) :
           contract.intent_declarations[i].status = "Created"

\* C36: terminate succeeds exactly when the status is Effective or InProgress,
\* and then the status is Terminated; a failing terminate and a failing
\* make_effective return an error and leave status and effective time as they
\* were.
C36_TerminateRule ==
    [][/\ (ret'.op = "Contract::terminate" /\ ret'.pre = contract) =>
             /\ ret'.ok <=> contract.status \in {"Effective", "InProgress"}
             /\ ret'.ok => contract'.status = "Terminated"
       /\ (ret'.op \in {"Contract::terminate", "Contract::make_effective"}
              /\ ret'.pre = contract /\ ~ret'.ok) =>
             /\ ret'.args # <<"Ok">>
             /\ contract'.status = contract.status
             /\ contract'.effective_at = contract.effective_at]_vars

\* terminate has been refused on a contract that was never made effective,
\* which is still Created and has no effective time.
C36_Witness ==
    /\ ret.op = "Contract::terminate"
    /\ ~ret.ok
    /\ ret.pre.status = "Created"
    /\ contract.status = "Created"
    /\ contract.effective_at = None

\* C37: make_effective of a SaleContract succeeds only when the SaleContract's
\* own validate succeeds: the base validation and the sale-specific legal
\* requirements (non-empty subject name, quantity > 0, price > 0, exactly two
\* parties) hold at that moment.
C37_SaleEffectiveOnlyIfValid ==
    [][(ret'.op = "SaleContract::make_effective" /\ ret'.pre = contract /\ ret'.ok) =>
          /\ contract.subject.name # <<>>
          /\ contract.subject.quantity > 0
          /\ contract.price.amount > 0
          /\ Len(contract.base.parties) = 2
          /\ SaleContract_validate_result(contract) = "Ok"]_vars

\* A sale contract without a subject name and with quantity zero has been made
\* effective, and its own validate refuses it.
C37_Witness ==
    /\ ret.op = "SaleContract::make_effective"
    /\ ret.ok
    /\ contract.base.status = "Effective"
    /\ contract.subject.name = <<>>
    /\ contract.subject.quantity = 0
    /\ SaleContract_validate_result(contract) # "Ok"

\* Every party of the list other than the organization O has capacity.
OthersCapable(ps) == \A i \in 1..Len(ps) : ps[i] = "O" \/ has_capacity(PartyEntity(ps[i]))

\* C38: has_capacity of an unincorporated organization is true in every
\* reachable state, whatever its authority status; so IntentDeclaration::new
\* accepts it as declarant and as recipient, and the validation of a contract
\* accepts it as a party, also when it is Suspended.
C38_OrgAlwaysCapable ==
    /\ has_capacity(PartyEntity("O"))
    /\ (ret.op = "new" /\ OthersCapable(<<ret.args[1], Unwrap(ret.args[2])>>)) => ret.ok
    /\ (ret.op = "validate" /\ Len(ret.pre.parties) > 0 /\ OthersCapable(ret.pre.parties))
           => ret.ok

\* A declaration of the organization has been constructed while its authority
\* status was Suspended.
C38_Witness ==
    /\ ret.op = "new"
    /\ ret.ok
    /\ ret.args[1] = "O"
    /\ org["O"].capacity_status.status = "Suspended"

\* The executive partner, when set, is a member's id; an organization that is
\* not a partnership has neither members nor an executive partner.
PartnersConsistent ==
    LET o == org["O"] IN
    /\ o.executive_partner # None => IsMember(o, Unwrap(o.executive_partner))
    /\ ~IsPartnership(o) => (o.members = <<>> /\ o.executive_partner = None)

\* What a call that returns in this step has answered: add_partner Ok exactly
\* for a partnership, set_executive_partner Ok exactly for a partnership of
\* which the id is a member.
PartnerCallAnswers ==
    /\ (ret'.op = "add_partner" /\ thr' = thr /\ (ret' # ret \/ org' # org)) =>
           (ret'.ok <=> IsPartnership(org["O"]))
    /\ (ret'.op = "set_executive_partner" /\ thr' = thr /\ (ret' # ret \/ org' # org)) =>
           (ret'.ok <=> (IsPartnership(org["O"]) /\ IsMember(org["O"], ret'.args[1])))
    /\ \A t \in Threads :
           (thr[t].pc # "done" /\ thr'[t].pc = "done") =>
               /\ thr'[t].op = "add_partner" =>
                      (thr'[t].result = "Ok" <=> IsPartnership(org'["O"]))
               /\ thr'[t].op = "set_executive_partner" =>
                      (thr'[t].result = "Ok" <=>
                          (IsPartnership(org'["O"]) /\ IsMember(org'["O"], thr'[t].partner)))

\* C39: after any sequence of add_partner and set_executive_partner calls,
\* plain or thread-safe, also interleaved: add_partner succeeds exactly for
\* partnership kinds; set_executive_partner succeeds exactly for partnership
\* kinds when the given id is a current member; the executive partner, when
\* set, is a member's id; and a non-partnership organization never has members
\* or an executive partner.
C39_PartnersRule == []PartnersConsistent /\ [][PartnerCallAnswers]_vars

\* One thread has set a member as executive partner while another thread was
\* between the two writes of its add_partner, and a later set_executive_partner
\* with an id that is no member has been refused.
C39_Witness ==
    /\ org["O"].executive_partner # None
    /\ Len(org["O"].members) = 1
    /\ \E t \in Threads : thr[t].pc = "base_touch" /\ thr[t].op = "add_partner"
    /\ \E t \in Threads : /\ thr[t].pc = "done"
                            /\ thr[t].op = "set_executive_partner"
                            /\ thr[t].result = "Err"

\* The text essential_hash feeds to the digest.
PreHashText(c) == Join(essential_parts(c), <<"_">>)

\* C40: the text fed to the essential-content digest is an injective encoding
\* of the essential fields: two contents that differ in subject name, subject
\* kind, presence, amount or currency of the price, or presence, amount or unit
\* of the quantity never yield the same text.
C40_PreHashInjective ==
    (ret.op = "essential_hash" /\ EssentialFields(ret.args[1]) # EssentialFields(ret.args[2]))
        => PreHashText(ret.args[1]) # PreHashText(ret.args[2])

\* A content with only a price and a content with only a quantity, about the
\* same subject matter, have been hashed and have the same hash.
C40_Witness ==
    /\ ret.op = "essential_hash"
    /\ ret.args[1].subject_matter = ret.args[2].subject_matter
    /\ ret.args[1].price # None
    /\ ret.args[1].quantity = None
    /\ ret.args[2].price = None
    /\ ret.args[2].quantity # None
    /\ ret.args[3] = ret.args[4]

\* The answers of the nine matches calls.
Answer(i, j) == ret.args[4][i][j]

C31_Reflexive == \A i \in 1..3 : Answer(i, i)

C31_Symmetric == \A i \in 1..3, j \in 1..3 : Answer(i, j) => Answer(j, i)

C31_Transitive ==
    \A i \in 1..3, j \in 1..3, k \in 1..3 : (Answer(i, j) /\ Answer(j, k)) => Answer(i, k)

\* C31 as stated: matches is an equivalence on declarations: reflexive,
\* symmetric and transitive.
C31_MatchesIsEquivalence ==
    (ret.op = "matches" /\ Len(ret.args) = 4) =>
        (C31_Reflexive /\ C31_Symmetric /\ C31_Transitive)

\* C31, amended: matches is reflexive and symmetric.
C31_MatchesReflexiveSymmetric ==
    (ret.op = "matches" /\ Len(ret.args) = 4) => (C31_Reflexive /\ C31_Symmetric)

\* The first declaration matches the second by match code, the second matches
\* the third by kind and parties, and the first does not match the third.
C31_Witness ==
    /\ ret.op = "matches"
    /\ Len(ret.args) = 4
    /\ Answer(1, 2)
    /\ Answer(2, 1)
    /\ Answer(2, 3)
    /\ ~Answer(1, 3)

-----------------------------------------------------------------------------
(* Properties of contract formation                                        *)

\* Status Effective and, if there is a deadline, the instant `at` not past it.
CurrentlyValid(decl, at) ==
    /\ decl.status = "Effective"
    /\ decl.valid_until = None \/ at <= Unwrap(decl.valid_until)

\* C4: can_form_contract_with(a, b) is true exactly when both declarations are
\* valid at that instant and their match codes are equal.
C4_CanFormRule ==
    ret.op = "can_form_contract_with" =>
        LET a == decls[ret.d]
            b == decls[ret.args[1]]
            at == ret.args[2]
        IN  ret.ok <=>
                /\ CurrentlyValid(a, at)
                /\ CurrentlyValid(b, at)
                /\ a.match_code = b.match_code

\* The answer was false for two Effective declarations with equal match codes:
\* a deadline had passed.
C4_Witness ==
    /\ ret.op = "can_form_contract_with"
    /\ ~ret.ok
    /\ decls["d1"].status = "Effective"
    /\ decls["d2"].status = "Effective"
    /\ decls["d1"].match_code = decls["d2"].match_code

\* a goes from A to B, b from B to A, and the two contents agree on every
\* essential field.
SameDealSwapped(a, b) ==
    /\ a # NoDecl
    /\ b # NoDecl
    /\ a.recipient = Some(b.declarant)
    /\ b.recipient = Some(a.declarant)
    /\ EssentialFields(a.content) = EssentialFields(b.content)

\* Both have been marked delivered and are Effective.
BothDelivered(a, b) ==
    /\ a.delivered_at # None /\ a.status = "Effective"
    /\ b.delivered_at # None /\ b.status = "Effective"

Asked(x, y) ==
    /\ ret.op = "can_form_contract_with"
    /\ ret.d = x
    /\ ret.args[1] = y

\* C5 as stated: declarations A -> B and B -> A with identical essential content
\* have equal match codes whatever their kinds, and can form a contract once
\* both are marked delivered.
C5_FormOnceDelivered ==
    \A x \in DeclIds, y \in DeclIds :
        SameDealSwapped(decls[x], decls[y]) =>
            /\ decls[x].match_code = decls[y].match_code
            /\ (Asked(x, y) /\ BothDelivered(decls[x], decls[y])) => ret.ok

\* C5, amended: declarations A -> B and B -> A with identical essential content
\* have equal match codes whatever their kinds, and can form a contract once
\* both are marked delivered, as long as both are still Effective and neither
\* deadline has passed.
C5_FormOnceDeliveredInTime ==
    \A x \in DeclIds, y \in DeclIds :
        SameDealSwapped(decls[x], decls[y]) =>
            /\ decls[x].match_code = decls[y].match_code
            /\ (/\ Asked(x, y)
                /\ BothDelivered(decls[x], decls[y])
                /\ CurrentlyValid(decls[x], ret.args[2])
                /\ CurrentlyValid(decls[y], ret.args[2])) => ret.ok

\* Two Offers, A -> B and B -> A, whose contents differ outside the essential
\* fields, were both delivered and can form a contract.
C5_Witness ==
    /\ Asked("d1", "d2")
    /\ ret.ok
    /\ SameDealSwapped(decls["d1"], decls["d2"])
    /\ decls["d1"].declarant # decls["d2"].declarant
    /\ decls["d1"].content # decls["d2"].content
    /\ decls["d2"].declaration_type = "Offer"
    /\ BothDelivered(decls["d1"], decls["d2"])

-----------------------------------------------------------------------------
(* Properties of guardianship assignment                                   *)

\* C8: when set_guardian is about to return Ok, the ward holds the record
\* (guardian id, ward id, scope) and the guardian's is_guardian flag is set.
C8_RecordOnWard ==
    \A t \in Threads :
        thr[t].pc = "unlock" =>
            LET w == person[wraps[thr[t].ward]]
                g == person[wraps[thr[t].guardian]]
            IN  /\ w.guardian # None
                /\ Unwrap(w.guardian).guardian = g.id
                /\ Unwrap(w.guardian).ward = w.id
                /\ Unwrap(w.guardian).scope = thr[t].scope
                /\ g.is_guardian

\* The call came back to its caller with a result.
Returned(t) == thr[t].pc = "done"

\* Both threads are in set_guardian, on the same two handles in reversed order.
ReversedCalls ==
    /\ thr["t1"].pc # "idle"
    /\ thr["t2"].pc # "idle"
    /\ thr["t1"].ward # thr["t1"].guardian
    /\ thr["t2"].ward = thr["t1"].guardian
    /\ thr["t2"].guardian = thr["t1"].ward

\* C9: two concurrent set_guardian calls on the same two entities in reversed
\* argument order never deadlock: in every interleaving both calls eventually
\* complete, that is, come back to their callers.
C9_ReversedCallsComplete == ReversedCalls ~> (Returned("t1") /\ Returned("t2"))

\* C11: a set_guardian call that finds an entity lock held by another thread
\* waits for it or returns a lock-failure error; it never panics.
C11_NoPanicOnHeldLock == \A t \in Threads : thr[t].pc # "panicked"

\* C12: the update is atomic for concurrent readers, a reader holding clones
\* included: a reader that saw the ward's record of this guardian and then read
\* the guardian's is_guardian flag saw the flag set.
C12_AtomicForObservers ==
    (/\ obs.pc = "done"
     /\ obs.record # None
     /\ Unwrap(obs.record).ward = person[obs.ward].id
     /\ Unwrap(obs.record).guardian = person[obs.guardian].id) => obs.flag

\* C10: the first lock set_guardian takes is that of the entity with the
\* smaller identifier, whatever the argument order and the addresses.
C10_OrderByIdentifier ==
    \A t \in Threads, h \in Handles :
        (thr[t].pc = "lock_second" /\ mutex[h] = t) =>
            /\ person[wraps[h]].id <= person[wraps[thr[t].ward]].id
            /\ person[wraps[h]].id <= person[wraps[thr[t].guardian]].id

\* The call finished: it came back or it unwound in a panic.
Finished(t) == thr[t].pc \in {"done", "panicked"}

\* C26: set_guardian terminates for every pair of arguments, also when ward
\* and guardian are the same handle: the call does not wait forever for a lock
\* it holds itself.
C26_SelfAssignmentTerminates ==
    \A t \in Threads :
        (thr[t].pc # "idle" /\ thr[t].ward = thr[t].guardian) ~> Finished(t)

\* A call whose ward and guardian are the same handle holds that handle's lock
\* and is about to lock it again.
C26_Witness ==
    \E t \in Threads :
        /\ thr[t].ward = thr[t].guardian
        /\ thr[t].pc = "lock_second"
        /\ mutex[thr[t].ward] = t

\* The entities of which a thread holds a lock: the handle's Mutex or one of the
\* field RwLocks.
HeldEntities(x) ==
    {e \in Persons \cup {"L", "O"} :
        \/ e \in Persons /\ mutex[HandleOf(e)] = x
        \/ \E k \in LockKeys : k[1] = e /\ (rw[k].writer = x \/ x \in rw[k].readers)}

\* C25: only guardianship assignment ever holds locks of two entities at once:
\* update_mental_status, Entity::id and the mutators of legal persons and
\* organizations hold locks of at most one entity, and so does can_be_guardian
\* while set_guardian runs it.
C25_OnlyAssignmentHoldsTwo ==
    /\ Cardinality(HeldEntities(Updater)) <= 1
    /\ \A t \in Threads :
          thr[t].pc \in {"cbg_status", "cbg_base", "read_id"} =>
              Cardinality(HeldEntities(t)) <= 1

\* set_guardian holds locks of both persons while update_mental_status holds
\* the two field locks of one of them.
C25_Witness ==
    /\ Cardinality(HeldEntities("t1")) = 2
    /\ upd.op = "update_mental_status"
    /\ upd.pc = "capacity_w"
    /\ Cardinality(HeldEntities(Updater)) = 1

\* C27: when set_guardian records the relation on the ward, the guardian
\* satisfies can_be_guardian at that moment; no update_mental_status on the
\* guardian takes effect between the check and the update.
C27_EligibleWhenRecorded ==
    [][\A t \in Threads :
          (thr[t].pc = "ward_base_w" /\ thr'[t].pc = "guardian_flag_w") =>
              LET g == person[wraps[thr[t].guardian]]
              IN  can_be_guardian(g.mental_status, g)]_vars

\* The relation is on record and the call is about to return Ok while the
\* guardian's mental status is no longer Normal.
C27_Witness ==
    \E t \in Threads :
        /\ thr[t].pc = "unlock"
        /\ thr[t].ward # thr[t].guardian
        /\ person[wraps[thr[t].guardian]].mental_status # "Normal"

\* C28: can_be_guardian running next to update_mental_status on the same
\* person never pairs the mental status of one side of the update with the
\* capacity of the other: the capacity it reads is the one evaluated for the
\* mental status it read.
C28_StatusAndCapacityTogether ==
    [][\A t \in Threads :
          (thr[t].pc = "cbg_base" /\ thr'[t].pc # "cbg_base") =>
              LET p == person[wraps[thr[t].guardian]]
              IN  p.capacity_status.value
                      = evaluate_capacity(p.birth_year, CurrentYear, thr[t].status)]_vars

\* can_be_guardian has read the mental status of a person while
\* update_mental_status, called on a clone, is about to change it.
C28_Witness ==
    /\ thr["t1"].pc = "cbg_base"
    /\ upd.op = "update_mental_status"
    /\ upd.via = "clone"
    /\ upd.pc = "status_w"
    /\ upd.target = wraps[thr["t1"].guardian]
    /\ upd.new_status # person[upd.target].mental_status

=============================================================================
